---- MODULE Spec2Model ----
(***************************************************************************)
(* Model of the text-analysis functions of the SEO analyzer content script *)
(* (src/src/content/analyzer.js): countText, analyzeReadability,           *)
(* countSyllables, analyzeNgrams, buildNgramCounts and getTopN; of the     *)
(* content script's message listener; and of the popup's data-collection   *)
(* toggle and its upload of the results (src/src/lib/api.js).              *)
(*                                                                         *)
(* Each function has its own specification, whose initial states draw the  *)
(* function's input and whose action applies the function: SpecCount       *)
(* (countText), SpecReadability (analyzeReadability), SpecNgrams and       *)
(* SpecTokenize (analyzeNgrams), SpecSyllables (countSyllables), SpecTopN  *)
(* (buildNgramCounts, then getTopN), SpecAnalyze (the three analyzers on   *)
(* one text) and SpecRepeat (countText called again and again).            *)
(* SpecContent is the message listener, SpecPopup the popup.               *)
(*                                                                         *)
(* A JavaScript string is a sequence of one-character strings.  A number   *)
(* printed with one decimal (toFixed(1)) is kept as an integer number of   *)
(* tenths, one printed with two decimals as an integer number of           *)
(* hundredths.  A nullable field holds <<>> for null and <<v>> for v.      *)
(* The value returned by a function is kept in a variable that holds <<>>  *)
(* before the call and <<result>> after it.                                *)
(***************************************************************************)
EXTENDS Integers, Sequences, FiniteSets, TLC

VARIABLES
    text,         \* the input text: page text (body.textContent) or selection
    stats,        \* <<>> or <<the object returned by countText(text)>>
    readability,  \* <<>> or <<the object returned by analyzeReadability()>>
    ngrams,       \* <<>> or <<the object returned by analyzeNgrams()>>
    words,        \* argument of buildNgramCounts: an array of tokens
    limit,        \* argument n of getTopN
    counts,       \* <<>> or <<the table returned by buildNgramCounts>>
    topN,         \* <<>> or <<the list returned by getTopN(counts, limit)>>
    tokens,       \* <<>> or <<the local array `words` of analyzeNgrams()>>
    divisors,     \* <<>> or <<the divisors analyzeReadability() divided by>>
    syllables,    \* <<>> or <<the number returned by countSyllables(text)>>
    history,      \* the calls of countText made so far: text and result
    \* chrome.storage.local
    dataCollection,  \* <<>> (never stored), <<TRUE>> or <<FALSE>>
    sessionId,       \* <<>> or <<the session id stored>>
    \* the popup
    toggleChecked,   \* dataToggle.checked
    toggleReady,     \* initDataToggle has attached the change listener
    pendingWrites,   \* values given to storage.set that are not stored yet
    display,         \* the panels not hidden, of "loading", "results", "error"
    tab,             \* <<>> or <<the active tab>>: [url |-> <<>> or <<its URL>>]
    startPc,         \* where startAnalysis stands
    executeResult,   \* "none", or how executeScript went: "pending", "ok", "failed"
    messageCalls,    \* how many analyze messages the popup has sent
    rendered,        \* displayResults has rendered every section
    sendCalls,       \* how many times sendAnalysis was called
    sendPc,          \* where sendAnalysis stands
    sendResult,      \* the promise of sendAnalysis: "none", "pending", "resolved", "rejected"
    posts,           \* the number of POST requests issued
    warnings,        \* the messages given to console.warn
    \* the content script
    loaded,          \* window.__seoAnalyzerLoaded
    listeners,       \* the number of onMessage listeners added
    injections,      \* how many times analyzer.js was injected into the page
    hasBody,         \* document.body is not null
    request,         \* the action of the message last delivered, or "none"
    handlerPc,       \* where the handling of that message stands
    responses,       \* the values given to sendResponse for that message
    \* analyzeWebVitals() of that message
    timerPending,    \* setTimeout(finish, 2000) has not fired yet
    vitalsResolved,  \* the local flag `resolved`
    resolveCalls,    \* how many times resolve(vitals) was called
    observersOk,     \* the performance observers were registered
    observed,        \* how many observer callbacks have run
    \* the document
    headings,        \* the levels of its h1..h6 elements, in document order
    headingReport,   \* <<>> or <<the object returned by analyzeHeadings()>>
    \* the calls of getSessionId()
    sessionCalls,    \* for each call, where it stands and the id it made or returned
    \* the count notifications
    notes            \* for each div made: whether it is in the document, and its timer

\* the local values of the analyzers that the properties speak about
localVars == <<tokens, divisors, syllables>>

\* startAnalysis: the tab, the injection and the message
startVars == <<tab, startPc, executeResult, messageCalls, rendered, sendCalls>>

popupVars == <<dataCollection, sessionId, toggleChecked, toggleReady, pendingWrites,
               display, sendPc, sendResult, posts, warnings, startVars>>

vitalsVars == <<timerPending, vitalsResolved, resolveCalls, observersOk, observed>>

pageVars == <<loaded, listeners, injections, hasBody, request, handlerPc, responses,
              vitalsVars>>

\* the document and what is done to it besides the text analysis
extraVars == <<headings, headingReport, sessionCalls, notes>>

vars == <<text, stats, readability, ngrams, words, limit, counts, topN, localVars,
          history, popupVars, pageVars, extraVars>>

----------------------------------------------------------------------------
(* Bounds of the model *)

\* countText: longest arbitrary text over CountAlphabet
MaxTextLen == 5
\* countText: largest number of words of a repeated-word text
MaxCountWords == 240
\* countText: how many word counts below MaxCountWords the repeated-word texts take
CountWordsSpan == 3
\* analyzeReadability: largest number of chunks of a page text
MaxChunks == 32
\* analyzeReadability: page texts have at most this many chunks, or at most
\* this many fewer than MinWords, or more
MaxShortChunks == 2
\* analyzeReadability: largest number of punctuation-only chunks of a page text
MaxPunct == 1
\* analyzeNgrams: largest number of chunks of an enumerated page text
MaxNgramChunks == 5
\* tokenizer: longest arbitrary text over TokenAlphabet
MaxTokenLen == 5
\* countSyllables: longest arbitrary word over SyllableAlphabet
MaxWordLen == 4
\* countText on texts made of blocks: the largest number of blocks
MaxBlocks == 3
\* countText called repeatedly: the number of calls
MaxCalls == 3
\* message listener: longest arbitrary page or selection text over CountAlphabet
MaxSelectionLen == 2
\* content script: the largest number of injections into one page
MaxInjections == 3
\* web vitals: the largest number of observer callbacks of one analysis
MaxEntries == 2
\* analyzeHeadings: the largest number of headings of a page
MaxHeadings == 4
\* showCountNotification: the most notifications shown on a page
MaxNotifications == 5
\* getSessionId: the most calls under way at one time
MaxCallers == 3
\* popup: most storage writes of the toggle under way at one time
MaxPendingWrites == 2
\* getTopN: longest token array a frequency table is built from
MaxTopNWords == 5
\* getTopN: largest n asked for
MaxLimit == 3

----------------------------------------------------------------------------
(* Characters and the JavaScript string primitives the analyzers use *)

Null == <<>>
Some(v) == <<v>>

LowerLetters ==
    <<"a","b","c","d","e","f","g","h","i","j","k","l","m",
      "n","o","p","q","r","s","t","u","v","w","x","y","z">>
UpperLetters ==
    <<"A","B","C","D","E","F","G","H","I","J","K","L","M",
      "N","O","P","Q","R","S","T","U","V","W","X","Y","Z">>
Letters == {LowerLetters[i] : i \in 1..26}
Digits == {"0","1","2","3","4","5","6","7","8","9"}
AlphaNum == Letters \cup Digits
Vowels == {"a","e","i","o","u","y"}
Terminators == {".", "!", "?"}

\* the regular expression class \s, restricted to the characters modelled
IsWS(c) == c \in {" ", "\n", "\t"}

\* one character of String.prototype.toLowerCase
LowerChar(c) ==
    IF \E i \in 1..26 : UpperLetters[i] = c
    THEN LowerLetters[CHOOSE i \in 1..26 : UpperLetters[i] = c]
    ELSE c

toLowerCase(s) == [i \in 1..Len(s) |-> LowerChar(s[i])]

\* concatenation of F(lo), F(lo+1), ..., F(hi), each a sequence
RECURSIVE FlatMapIdx(_, _, _)
FlatMapIdx(F(_), lo, hi) ==
    IF lo > hi THEN <<>>
    ELSE IF lo = hi THEN F(lo)
    ELSE LET mid == (lo + hi) \div 2
         IN  FlatMapIdx(F, lo, mid) \o FlatMapIdx(F, mid + 1, hi)

\* sum of F(lo), F(lo+1), ..., F(hi)
RECURSIVE SumIdx(_, _, _)
SumIdx(F(_), lo, hi) ==
    IF lo > hi THEN 0
    ELSE IF lo = hi THEN F(lo)
    ELSE LET mid == (lo + hi) \div 2
         IN  SumIdx(F, lo, mid) + SumIdx(F, mid + 1, hi)

\* s.replace(/\s+/g, ' '): every maximal run of whitespace becomes one space
ReplaceWsRuns(s) ==
    FlatMapIdx(LAMBDA i : IF IsWS(s[i])
                          THEN IF i > 1 /\ IsWS(s[i - 1]) THEN <<>> ELSE <<" ">>
                          ELSE <<s[i]>>,
               1, Len(s))

\* s.replace(/\s/g, ''): every whitespace character is removed
RemoveWs(s) ==
    FlatMapIdx(LAMBDA i : IF IsWS(s[i]) THEN <<>> ELSE <<s[i]>>, 1, Len(s))

\* s.trim()
trim(s) ==
    LET solid == {i \in 1..Len(s) : ~IsWS(s[i])}
    IN  IF solid = {} THEN <<>>
        ELSE SubSeq(s, CHOOSE i \in solid : \A j \in solid : i <= j,
                       CHOOSE i \in solid : \A j \in solid : j <= i)

\* the last index of the stretch of s that starts at p and stops before the
\* first index >= p at which Stop holds (p - 1 when Stop(p))
StretchEnd(s, p, Stop(_)) ==
    IF \E j \in p..Len(s) : Stop(j)
    THEN (CHOOSE j \in p..Len(s) : Stop(j) /\ \A k \in p..(j - 1) : ~Stop(k)) - 1
    ELSE Len(s)

\* s.split(/\s+/): the pieces between the maximal runs of whitespace; a run at
\* the start or the end of s leaves an empty piece, and "" splits into [""]
SplitWs(s) ==
    LET n == Len(s)
        IsStart(p) == p = 1 \/ (IsWS(s[p - 1]) /\ (p = n + 1 \/ ~IsWS(s[p])))
    IN  FlatMapIdx(LAMBDA p : IF IsStart(p)
                              THEN <<SubSeq(s, p, StretchEnd(s, p, LAMBDA j : IsWS(s[j])))>>
                              ELSE <<>>,
                   1, n + 1)

\* s.split(' '): the pieces between the single spaces of s
SplitSpace(s) ==
    LET n == Len(s)
        IsStart(p) == p = 1 \/ s[p - 1] = " "
    IN  FlatMapIdx(LAMBDA p : IF IsStart(p)
                              THEN <<SubSeq(s, p, StretchEnd(s, p, LAMBDA j : s[j] = " "))>>
                              ELSE <<>>,
                   1, n + 1)

\* the first index of the stretch of s that ends at p and starts after the
\* last index <= p at which Stop holds (p + 1 when Stop(p))
StretchStart(s, p, Stop(_)) ==
    IF \E j \in 1..p : Stop(j)
    THEN (CHOOSE j \in 1..p : Stop(j) /\ \A k \in (j + 1)..p : ~Stop(k)) + 1
    ELSE 1

\* the separators s.split(/\n\s*\n/) finds: scanning from the left, a match
\* starts at a newline that is followed, after whitespace only, by another
\* newline, and (\s* being greedy) reaches the last newline of that
\* whitespace run; the scan resumes after the match.  The result is the set
\* of <<first, last>> index pairs of the matches.
BlankLineSeps(s) ==
    LET n == Len(s)
        RunStart(i) == StretchStart(s, i, LAMBDA j : ~IsWS(s[j]))
        RunEnd(i) == StretchEnd(s, i, LAMBDA j : ~IsWS(s[j]))
        LastNl(i) == CHOOSE j \in i..RunEnd(i) :
                         s[j] = "\n" /\ \A k \in (j + 1)..RunEnd(i) : s[k] # "\n"
        \* i starts a match: it is the first newline of its whitespace run
        \* and not the only one
        Starts(i) == /\ s[i] = "\n"
                     /\ \A k \in RunStart(i)..(i - 1) : s[k] # "\n"
                     /\ LastNl(i) > i
    IN  {<<i, LastNl(i)>> : i \in {k \in 1..n : Starts(k)}}

\* s.split(/\n\s*\n/)
SplitBlankLines(s) ==
    LET n == Len(s)
        seps == BlankLineSeps(s)
        IsStart(p) == p = 1 \/ \E m \in seps : m[2] = p - 1
        PieceEnd(p) == StretchEnd(s, p, LAMBDA j : \E m \in seps : m[1] = j)
    IN  FlatMapIdx(LAMBDA p : IF IsStart(p) THEN <<SubSeq(s, p, PieceEnd(p))>> ELSE <<>>,
                   1, n + 1)

\* array.filter(pred)
Filter(a, Keep(_)) ==
    FlatMapIdx(LAMBDA i : IF Keep(a[i]) THEN <<a[i]>> ELSE <<>>, 1, Len(a))

\* (s.match(/[.!?]+(\s|$)/g) || []): the start indices of the matches.  A
\* match is a maximal run of terminators followed by whitespace or by the end
\* of s; a run followed by anything else matches at none of its positions.
SentenceEndMatches(s) ==
    {i \in 1..Len(s) :
        /\ s[i] \in Terminators
        /\ (i = 1 \/ s[i - 1] \notin Terminators)
        /\ LET e == StretchEnd(s, i, LAMBDA j : s[j] \notin Terminators)
           IN  e = Len(s) \/ IsWS(s[e + 1])}

\* the characters [a-z0-9'-] a token may contain
WordChars == AlphaNum \cup {"'", "-"}

\* as tokenize, for the pattern [a-z0-9](['-]?[a-z0-9])*: an apostrophe or a
\* hyphen belongs to a token only when it stands alone between two
\* alphanumerics, and the tokens are the maximal runs of such characters and
\* alphanumerics
tokenizeSingleJoin(s) ==
    LET InToken(i) == \/ s[i] \in AlphaNum
                      \/ /\ s[i] \in WordChars
                         /\ 1 < i
                         /\ i < Len(s)
                         /\ s[i - 1] \in AlphaNum
                         /\ s[i + 1] \in AlphaNum
        IsTokenStart(i) == InToken(i) /\ (i = 1 \/ ~InToken(i - 1))
        TokenEnd(i) == StretchEnd(s, i, LAMBDA j : ~InToken(j))
    IN  FlatMapIdx(LAMBDA i : IF IsTokenStart(i) THEN <<SubSeq(s, i, TokenEnd(i))>> ELSE <<>>,
                   1, Len(s))

\* (s.match(/[a-z0-9](?:[a-z0-9'-]*[a-z0-9])?/g) || []).  Scanning from the
\* left, a match starts at the first [a-z0-9] found; [a-z0-9'-]* then takes
\* the whole run of word characters and gives back its trailing ' and -, so
\* the match ends at the last [a-z0-9] of the run; the characters given back
\* cannot start a match.  Hence one token per maximal run of word characters
\* that holds an alphanumeric: from its first to its last alphanumeric.
tokenize(s) ==
    LET RunStart(i) == StretchStart(s, i, LAMBDA j : s[j] \notin WordChars)
        RunEnd(i) == StretchEnd(s, i, LAMBDA j : s[j] \notin WordChars)
        IsTokenStart(i) == /\ s[i] \in AlphaNum
                           /\ \A k \in RunStart(i)..(i - 1) : s[k] \notin AlphaNum
        TokenEnd(i) == CHOOSE j \in i..RunEnd(i) :
                           s[j] \in AlphaNum /\ \A k \in (j + 1)..RunEnd(i) : s[k] \notin AlphaNum
    IN  FlatMapIdx(LAMBDA i : IF IsTokenStart(i) THEN <<SubSeq(s, i, TokenEnd(i))>> ELSE <<>>,
                   1, Len(s))

\* Math.ceil(a / b) for a >= 0, b > 0
Ceil(a, b) == (a + b - 1) \div b

Max(a, b) == IF a >= b THEN a ELSE b
Min(a, b) == IF a <= b THEN a ELSE b

----------------------------------------------------------------------------
(* countText *)

\* average adult reading speed, words per minute
ReadingSpeed == 238

\* as readingTimeMin, the quotient rounded down instead of up
readingTimeMinFloor(wordCount) == Max(1, wordCount \div ReadingSpeed)

readingTimeMin(wordCount) == Max(1, Ceil(wordCount, ReadingSpeed))

\* as countText, the words taken from the last n-gram analysis once there is one
countTextAfterNgrams(t) ==
    LET cleaned == trim(ReplaceWsRuns(t))
        wordCount == IF ngrams # <<>> THEN ngrams[1].totalWords
                     ELSE IF cleaned # <<>> THEN Len(SplitWs(cleaned)) ELSE 0
        sentences == IF cleaned # <<>> THEN Cardinality(SentenceEndMatches(cleaned)) ELSE 0
        paragraphs == IF trim(t) # <<>>
                      THEN Len(Filter(SplitBlankLines(trim(t)), LAMBDA p : trim(p) # <<>>))
                      ELSE 0
    IN  [characters |-> Len(cleaned),
         charactersNoSpaces |-> Len(RemoveWs(cleaned)),
         words |-> wordCount,
         sentences |-> sentences,
         paragraphs |-> paragraphs,
         readingTimeMin |-> readingTimeMin(wordCount)]

\* as countText, the paragraphs counted in the cleaned text
countTextCleanedParagraphs(t) ==
    LET cleaned == trim(ReplaceWsRuns(t))
        wordCount == IF cleaned # <<>> THEN Len(SplitWs(cleaned)) ELSE 0
        sentences == IF cleaned # <<>> THEN Cardinality(SentenceEndMatches(cleaned)) ELSE 0
        paragraphs == IF cleaned # <<>>
                      THEN Len(Filter(SplitBlankLines(cleaned), LAMBDA p : trim(p) # <<>>))
                      ELSE 0
    IN  [characters |-> Len(cleaned),
         charactersNoSpaces |-> Len(RemoveWs(cleaned)),
         words |-> wordCount,
         sentences |-> sentences,
         paragraphs |-> paragraphs,
         readingTimeMin |-> readingTimeMin(wordCount)]

\* as countText, the characters counted in the original text
countTextRawCharacters(t) ==
    LET cleaned == trim(ReplaceWsRuns(t))
        wordCount == IF cleaned # <<>> THEN Len(SplitWs(cleaned)) ELSE 0
        sentences == IF cleaned # <<>> THEN Cardinality(SentenceEndMatches(cleaned)) ELSE 0
        paragraphs == IF trim(t) # <<>>
                      THEN Len(Filter(SplitBlankLines(trim(t)), LAMBDA p : trim(p) # <<>>))
                      ELSE 0
    IN  [characters |-> Len(t),
         charactersNoSpaces |-> Len(RemoveWs(cleaned)),
         words |-> wordCount,
         sentences |-> sentences,
         paragraphs |-> paragraphs,
         readingTimeMin |-> readingTimeMin(wordCount)]

\* as countText, the text split into words even when nothing is left of it
countTextUnguarded(t) ==
    LET cleaned == trim(ReplaceWsRuns(t))
        wordCount == Len(SplitWs(cleaned))
        paragraphs == IF trim(t) # <<>>
                      THEN Len(Filter(SplitBlankLines(trim(t)), LAMBDA p : trim(p) # <<>>))
                      ELSE 0
    IN  [characters |-> Len(cleaned),
         charactersNoSpaces |-> Len(RemoveWs(cleaned)),
         words |-> wordCount,
         sentences |-> Cardinality(SentenceEndMatches(cleaned)),
         paragraphs |-> paragraphs,
         readingTimeMin |-> readingTimeMin(wordCount)]

countText(t) ==
    LET cleaned == trim(ReplaceWsRuns(t))
        characters == Len(cleaned)
        charactersNoSpaces == Len(RemoveWs(cleaned))
        wordCount == IF cleaned # <<>> THEN Len(SplitWs(cleaned)) ELSE 0
        sentences == IF cleaned # <<>> THEN Cardinality(SentenceEndMatches(cleaned)) ELSE 0
        paragraphs == IF trim(t) # <<>>
                      THEN Len(Filter(SplitBlankLines(trim(t)), LAMBDA p : trim(p) # <<>>))
                      ELSE 0
    IN  [characters |-> characters,
         charactersNoSpaces |-> charactersNoSpaces,
         words |-> wordCount,
         sentences |-> sentences,
         paragraphs |-> paragraphs,
         readingTimeMin |-> readingTimeMin(wordCount)]

----------------------------------------------------------------------------
(* countSyllables and analyzeReadability *)

\* word.replace(/[^a-z]/g, '')
LettersOnly(w) ==
    FlatMapIdx(LAMBDA i : IF w[i] \in Letters THEN <<w[i]>> ELSE <<>>, 1, Len(w))

\* word.replace(/e$/, '')
StripFinalE(w) ==
    IF w # <<>> /\ w[Len(w)] = "e" THEN SubSeq(w, 1, Len(w) - 1) ELSE w

\* (word.match(/[aeiouy]+/g)): the start indices of the maximal vowel runs
VowelGroups(w) ==
    {i \in 1..Len(w) : w[i] \in Vowels /\ (i = 1 \/ w[i - 1] \notin Vowels)}

\* as countSyllables, the final e kept
countSyllablesKeepFinalE(word) ==
    LET w == LettersOnly(toLowerCase(word))
    IN  IF w = <<>> \/ Len(w) <= 2 THEN 1
        ELSE LET groups == Cardinality(VowelGroups(w))
                 count == IF groups # 0 THEN groups ELSE 1
             IN  Max(1, count)

countSyllables(word) ==
    LET w == LettersOnly(toLowerCase(word))
    IN  IF w = <<>> \/ Len(w) <= 2 THEN 1
        ELSE LET groups == Cardinality(VowelGroups(StripFinalE(w)))
                 count == IF groups # 0 THEN groups ELSE 1
             IN  Max(1, count)

\* +(num / den).toFixed(d), scaled by 10^d, where num / den is the exact
\* value already scaled by 10^d and den > 0.  toFixed rounds the magnitude to
\* the nearest integer.  When the exact value lies halfway between two
\* integers, the double the program holds may lie on either side of the tie
\* (or on it, and toFixed then takes the larger magnitude): both neighbours
\* are possible results.  Everywhere else the double is far closer to the
\* exact value than the exact value is to a tie.
toFixed(num, den) ==
    LET a == IF num < 0 THEN -num ELSE num
        sgn == IF num < 0 THEN -1 ELSE 1
        down == a \div den
        rem == a % den
    IN  IF 2 * rem < den THEN {sgn * down}
        ELSE IF 2 * rem > den THEN {sgn * (down + 1)}
        ELSE {sgn * down, sgn * (down + 1)}

\* fewest words analyzeReadability accepts
MinWords == 30

\* as notEnoughText, the threshold one too low
notEnoughTextBelow(cleaned) == cleaned = <<>> \/ Len(SplitWs(cleaned)) < MinWords - 1

\* as notEnoughText, counting the word tokens instead of the chunks
notEnoughTextByTokens(cleaned) == Len(tokenize(toLowerCase(cleaned))) < MinWords

\* the guard of analyzeReadability on the cleaned text
notEnoughText(cleaned) == cleaned = <<>> \/ Len(SplitWs(cleaned)) < MinWords

\* as fleschEase, without the clamp
fleschEaseUnclamped(wordCount, sentenceCount, totalSyllables) ==
    toFixed(206835 * sentenceCount * wordCount
              - 1015 * wordCount * wordCount
              - 84600 * totalSyllables * sentenceCount,
            100 * sentenceCount * wordCount)

\* Flesch Reading Ease in tenths:
\* 206.835 - 1.015 * (words / sentences) - 84.6 * (syllables / words),
\* rounded to one decimal, then clamped to 0..100
fleschEase(wordCount, sentenceCount, totalSyllables) ==
    {Max(0, Min(1000, v)) :
        v \in toFixed(206835 * sentenceCount * wordCount
                        - 1015 * wordCount * wordCount
                        - 84600 * totalSyllables * sentenceCount,
                      100 * sentenceCount * wordCount)}

\* as fleschKincaid, without the floor
fleschKincaidUnfloored(wordCount, sentenceCount, totalSyllables) ==
    toFixed(39 * wordCount * wordCount
              + 1180 * totalSyllables * sentenceCount
              - 1559 * sentenceCount * wordCount,
            10 * sentenceCount * wordCount)

\* Flesch-Kincaid grade in tenths:
\* 0.39 * (words / sentences) + 11.8 * (syllables / words) - 15.59,
\* rounded to one decimal, then floored at 0
fleschKincaid(wordCount, sentenceCount, totalSyllables) ==
    {Max(0, v) :
        v \in toFixed(39 * wordCount * wordCount
                        + 1180 * totalSyllables * sentenceCount
                        - 1559 * sentenceCount * wordCount,
                      10 * sentenceCount * wordCount)}

\* as scoreOf, the thresholds exclusive
scoreOfExclusive(ease) ==
    IF ease > 600 THEN 100
    ELSE IF ease > 400 THEN 70
    ELSE IF ease > 200 THEN 40
    ELSE 20

\* the score of a Flesch Reading Ease given in tenths
scoreOf(ease) ==
    IF ease >= 600 THEN 100
    ELSE IF ease >= 400 THEN 70
    ELSE IF ease >= 200 THEN 40
    ELSE 20

NotEnoughTextReport ==
    [score |-> 0, fleschEase |-> Null, fleschKincaid |-> Null,
     avgSentenceLen |-> Some(0), avgWordLen |-> Some(0), syllablesPerWord |-> Some(0),
     message |-> Some("Not enough text to analyze (need 30+ words)")]

\* as sentenceCountOf, one added to the number of matches instead of the floor
sentenceCountPlusOne(cleaned) == Cardinality(SentenceEndMatches(cleaned)) + 1

\* the local sentenceCount of analyzeReadability
sentenceCountOf(cleaned) == Max(1, Cardinality(SentenceEndMatches(cleaned)))

\* the divisors of the divisions analyzeReadability() evaluates: none when it
\* returns early, else wordCount and sentenceCount
readabilityDivisors(bodyText) ==
    LET cleaned == trim(ReplaceWsRuns(bodyText))
    IN  IF notEnoughText(cleaned) THEN {}
        ELSE {[name |-> "wordCount", value |-> Len(SplitWs(cleaned))],
              [name |-> "sentenceCount", value |-> sentenceCountOf(cleaned)]}

\* the reports analyzeReadability() can return for a page whose body text
\* (hidden nodes removed) is bodyText; more than one only at a rounding tie.
\* avgSentenceLen and avgWordLen are in tenths, syllablesPerWord in hundredths.
analyzeReadability(bodyText) ==
    LET cleaned == trim(ReplaceWsRuns(bodyText))
    IN  IF notEnoughText(cleaned) THEN {NotEnoughTextReport}
        ELSE LET ws == SplitWs(cleaned)
                 wordCount == Len(ws)
                 sentenceCount == sentenceCountOf(cleaned)
                 totalSyllables == SumIdx(LAMBDA i : countSyllables(ws[i]), 1, wordCount)
                 joined == SumIdx(LAMBDA i : Len(ws[i]), 1, wordCount)
             IN  {[score |-> scoreOf(fe), fleschEase |-> Some(fe),
                   fleschKincaid |-> Some(fk),
                   avgSentenceLen |-> Some(asl), avgWordLen |-> Some(awl),
                   syllablesPerWord |-> Some(spw), message |-> Null] :
                     fe \in fleschEase(wordCount, sentenceCount, totalSyllables),
                     fk \in fleschKincaid(wordCount, sentenceCount, totalSyllables),
                     asl \in toFixed(10 * wordCount, sentenceCount),
                     awl \in toFixed(10 * joined, wordCount),
                     spw \in toFixed(100 * totalSyllables, wordCount)}

----------------------------------------------------------------------------
(* Inputs of analyzeReadability *)

\* the whitespace-separated chunks the page texts are made of: a one-syllable
\* word, a word that ends a sentence, a three-syllable word, and a chunk of
\* punctuation only
PlainWord == <<"C", "a", "t">>
SentenceWord == <<"i", "t", ".">>
LongWord == <<"u", "n", "i", "t", "y">>
PunctChunk == <<"-">>

\* the page text with a plain words, b sentence-ending words, c long words
\* and d punctuation chunks, one per line, indented
PageText(a, b, c, d) ==
    LET Chunk(i) == IF i <= a THEN PlainWord
                    ELSE IF i <= a + b THEN SentenceWord
                    ELSE IF i <= a + b + c THEN LongWord
                    ELSE PunctChunk
    IN  FlatMapIdx(LAMBDA i : <<"\n", " ">> \o Chunk(i), 1, a + b + c + d) \o <<"\n">>

ChunkTotals == (0..MaxShortChunks) \cup ((MinWords - MaxShortChunks)..MaxChunks)

PageTexts ==
    {PageText(n - b - c - d, b, c, d) :
        <<n, b, c, d>> \in {q \in ChunkTotals \X (0..MaxChunks) \X (0..MaxChunks) \X (0..MaxPunct) :
                               q[2] + q[3] + q[4] <= q[1]}}

----------------------------------------------------------------------------
(* analyzeNgrams, buildNgramCounts and getTopN *)

StopWords == {
    <<"a">>, <<"a","n">>, <<"t","h","e">>, <<"a","n","d">>, <<"o","r">>, <<"b","u","t">>,
    <<"i","n">>, <<"o","n">>, <<"a","t">>, <<"t","o">>, <<"f","o","r">>, <<"o","f">>,
    <<"w","i","t","h">>, <<"b","y">>, <<"f","r","o","m">>, <<"i","s">>, <<"i","t">>,
    <<"i","t","s">>, <<"t","h","i","s">>, <<"t","h","a","t">>, <<"a","r","e">>,
    <<"w","a","s">>, <<"w","e","r","e">>, <<"b","e">>, <<"b","e","e","n">>,
    <<"b","e","i","n","g">>, <<"h","a","v","e">>, <<"h","a","s">>, <<"h","a","d">>,
    <<"d","o">>, <<"d","o","e","s">>, <<"d","i","d">>, <<"w","i","l","l">>,
    <<"w","o","u","l","d">>, <<"c","o","u","l","d">>, <<"s","h","o","u","l","d">>,
    <<"m","a","y">>, <<"m","i","g","h","t">>, <<"s","h","a","l","l">>, <<"c","a","n">>,
    <<"n","o","t">>, <<"n","o">>, <<"n","o","r">>, <<"s","o">>, <<"i","f">>,
    <<"t","h","e","n">>, <<"t","h","a","n">>, <<"t","o","o">>, <<"v","e","r","y">>,
    <<"j","u","s","t">>, <<"a","b","o","u","t">>, <<"a","b","o","v","e">>,
    <<"a","f","t","e","r">>, <<"a","g","a","i","n">>, <<"a","l","l">>, <<"a","l","s","o">>,
    <<"a","m">>, <<"a","s">>, <<"b","e","c","a","u","s","e">>, <<"b","e","f","o","r","e">>,
    <<"b","e","t","w","e","e","n">>, <<"b","o","t","h">>, <<"e","a","c","h">>, <<"f","e","w">>,
    <<"g","e","t">>, <<"g","o","t">>, <<"h","e">>, <<"h","e","r">>, <<"h","e","r","e">>,
    <<"h","i","m">>, <<"h","i","s">>, <<"h","o","w">>, <<"i">>, <<"i","n","t","o">>,
    <<"m","e">>, <<"m","o","r","e">>, <<"m","o","s","t">>, <<"m","y">>, <<"n","e","w">>,
    <<"n","o","w">>, <<"o","n","l","y">>, <<"o","t","h","e","r">>, <<"o","u","r">>,
    <<"o","u","t">>, <<"o","v","e","r">>, <<"o","w","n">>, <<"r","e">>, <<"s","a","m","e">>,
    <<"s","h","e">>, <<"s","o","m","e">>, <<"s","u","c","h">>, <<"t","h","e","r","e">>,
    <<"t","h","e","y">>, <<"t","h","e","i","r">>, <<"t","h","e","m">>, <<"t","h","e","s","e">>,
    <<"t","h","o","s","e">>, <<"t","h","r","o","u","g","h">>, <<"u","n","d","e","r">>,
    <<"u","p">>, <<"u","s">>, <<"w","e">>, <<"w","h","a","t">>, <<"w","h","e","n">>,
    <<"w","h","e","r","e">>, <<"w","h","i","c","h">>, <<"w","h","i","l","e">>, <<"w","h","o">>,
    <<"w","h","o","m">>, <<"w","h","y">>, <<"y","o","u">>, <<"y","o","u","r">>,
    <<"a","b","l","e">>, <<"a","c","r","o","s","s">>, <<"a","l","r","e","a","d","y">>,
    <<"a","l","w","a","y","s">>, <<"a","m","o","n","g">>, <<"a","n","y">>,
    <<"a","r","o","u","n","d">>, <<"a","w","a","y">>, <<"b","a","c","k">>,
    <<"b","e","c","o","m","e">>, <<"b","e","l","o","w">>, <<"c","o","m","e">>,
    <<"d","o","w","n">>, <<"d","u","r","i","n","g">>, <<"e","v","e","n">>,
    <<"e","v","e","r","y">>, <<"f","i","n","d">>, <<"f","i","r","s","t">>, <<"g","o">>,
    <<"g","o","i","n","g">>, <<"g","o","o","d">>, <<"g","r","e","a","t">>, <<"h","e","l","p">>,
    <<"h","i","g","h">>, <<"h","o","w","e","v","e","r">>, <<"k","e","e","p">>,
    <<"k","n","o","w">>, <<"l","a","s","t">>, <<"l","e","t">>, <<"l","i","k","e">>,
    <<"l","o","n","g">>, <<"l","o","o","k">>, <<"m","a","d","e">>, <<"m","a","k","e">>,
    <<"m","a","n","y">>, <<"m","u","c","h">>, <<"m","u","s","t">>, <<"n","e","e","d">>,
    <<"n","e","x","t">>, <<"o","f","f">>, <<"o","f","t","e","n">>, <<"o","l","d">>,
    <<"o","n","c","e">>, <<"o","n","e">>, <<"p","a","r","t">>, <<"p","e","r">>,
    <<"p","u","t">>, <<"s","a","i","d">>, <<"s","a","y">>, <<"s","e","e">>,
    <<"s","e","e","m">>, <<"s","e","t">>, <<"s","h","o","w">>, <<"s","i","n","c","e">>,
    <<"s","t","i","l","l">>, <<"t","a","k","e">>, <<"t","e","l","l">>, <<"t","h","i","n","g">>,
    <<"t","h","i","n","k">>, <<"t","i","m","e">>, <<"t","w","o">>, <<"u","s","e">>,
    <<"w","a","n","t">>, <<"w","a","y">>, <<"w","e","l","l">>, <<"w","o","r","k">>,
    <<"y","e","a","r">>
}

\* array.join(' ')
JoinSpace(a) ==
    FlatMapIdx(LAMBDA i : IF i = 1 THEN a[i] ELSE <<" ">> \o a[i], 1, Len(a))

\* A frequency table `counts` is a plain object: the sequence of its own
\* properties [key, val] in creation order.  A value is Num(k), the number k,
\* or Str(k), the string that results from adding 1 k times to a function.
Num(k) == <<k>>
Str(k) == <<"function Object() { [native code] }", k>>
IsNum(v) == Len(v) = 1

\* the property names every plain object inherits from Object.prototype,
\* among the strings the tokenizer can produce
PrototypeKeys == {<<"c","o","n","s","t","r","u","c","t","o","r">>}

HasOwn(table, key) == \E i \in 1..Len(table) : table[i].key = key
OwnIndex(table, key) == CHOOSE i \in 1..Len(table) : table[i].key = key

\* (counts[gram] || 0) + 1
Incremented(table, gram) ==
    IF HasOwn(table, gram)
    THEN LET v == table[OwnIndex(table, gram)].val
         IN  IF IsNum(v) THEN Num(v[1] + 1) ELSE Str(v[2] + 1)
    ELSE IF gram \in PrototypeKeys THEN Str(1)
    ELSE Num(1)

\* counts[gram] = v
SetProp(table, gram, v) ==
    IF HasOwn(table, gram)
    THEN [table EXCEPT ![OwnIndex(table, gram)].val = v]
    ELSE Append(table, [key |-> gram, val |-> v])

\* as allStopWords, one stop word being enough
someStopWord(gram, n, stopWords) ==
    /\ n > 1
    /\ stopWords # <<>>
    /\ LET parts == SplitSpace(gram)
       IN  \E k \in 1..Len(parts) : parts[k] \in stopWords[1]

\* the test that makes buildNgramCounts skip a candidate; stopWords is <<>>
\* when the argument is left out and <<the set>> otherwise
allStopWords(gram, n, stopWords) ==
    /\ n > 1
    /\ stopWords # <<>>
    /\ LET parts == SplitSpace(gram)
       IN  \A k \in 1..Len(parts) : parts[k] \in stopWords[1]

\* the loop of buildNgramCounts from index i (1-based) on
RECURSIVE buildLoop(_, _, _, _, _)
buildLoop(ws, n, stopWords, i, table) ==
    IF i > Len(ws) - n + 1 THEN table
    ELSE LET gram == JoinSpace(SubSeq(ws, i, i + n - 1))
         IN  IF allStopWords(gram, n, stopWords)
             THEN buildLoop(ws, n, stopWords, i + 1, table)
             ELSE buildLoop(ws, n, stopWords, i + 1,
                            SetProp(table, gram, Incremented(table, gram)))

buildNgramCounts(ws, n, stopWords) == buildLoop(ws, n, stopWords, 1, <<>>)

\* a property name that is an array index: the canonical decimal form of an
\* integer in 0 .. 2^32 - 2
DigitValue(c) == CHOOSE d \in 0..9 : <<"0","1","2","3","4","5","6","7","8","9">>[d + 1] = c

\* 2^32 - 2, the largest array index
MaxArrayIndex == <<"4","2","9","4","9","6","7","2","9","4">>

\* a < b for two canonical decimal numerals
IndexLess(a, b) ==
    \/ Len(a) < Len(b)
    \/ /\ Len(a) = Len(b)
       /\ \E i \in 1..Len(a) :
            /\ DigitValue(a[i]) < DigitValue(b[i])
            /\ \A k \in 1..(i - 1) : a[k] = b[k]

\* a property name that is an array index: the canonical decimal form of an
\* integer in 0 .. 2^32 - 2
IsArrayIndex(key) ==
    /\ key # <<>>
    /\ \A i \in 1..Len(key) : key[i] \in Digits
    /\ (key[1] = "0" => Len(key) = 1)
    /\ ~IndexLess(MaxArrayIndex, key)

\* the sequence that lists the indices in `idx` (a set of indices into a
\* sequence) by increasing rank, Rank being a bijection from idx to 1..|idx|
ByRank(idx, Rank(_)) ==
    [r \in 1..Cardinality(idx) |-> CHOOSE i \in idx : Rank(i) = r]

\* Object.entries(counts): the array-index keys in increasing numeric order,
\* then the other keys in creation order
ObjectEntries(table) ==
    LET all == 1..Len(table)
        ints == {i \in all : IsArrayIndex(table[i].key)}
        strs == all \ ints
        IntRank(i) == 1 + Cardinality({j \in ints : IndexLess(table[j].key, table[i].key)})
        StrRank(i) == 1 + Cardinality({j \in strs : j < i})
        intOrder == ByRank(ints, IntRank)
        strOrder == ByRank(strs, StrRank)
    IN  [k \in 1..Len(intOrder) |-> table[intOrder[k]]] \o
        [k \in 1..Len(strOrder) |-> table[strOrder[k]]]

\* array.sort((a, b) => b[1] - a[1]) on entries whose values are numbers:
\* by decreasing count, entries of equal count keeping their order
SortByCountDesc(a) ==
    LET all == 1..Len(a)
        Rank(i) == 1 + Cardinality({j \in all : a[j].val[1] > a[i].val[1]})
                     + Cardinality({j \in all : j < i /\ a[j].val[1] = a[i].val[1]})
        order == ByRank(all, Rank)
    IN  [k \in 1..Len(a) |-> a[order[k]]]

\* as atLeastTwo, single occurrences kept
atLeastOne(v) == IsNum(v) /\ v[1] >= 1

\* the filter of getTopN: count >= 2, false for a value that is no number
atLeastTwo(v) == IsNum(v) /\ v[1] >= 2

getTopN(table, n) ==
    LET kept == Filter(ObjectEntries(table), LAMBDA e : atLeastTwo(e.val))
        sorted == SortByCountDesc(kept)
        top == SubSeq(sorted, 1, Min(n, Len(sorted)))
    IN  [k \in 1..Len(top) |-> [phrase |-> top[k].key, count |-> top[k].val[1]]]

\* the sizes of the lists analyzeNgrams reports
TopUnigrams == 15
TopPhrases == 10

\* as isKeyword, one-character tokens kept
isKeywordAnyLength(w) == w \notin StopWords

\* the filter analyzeNgrams applies before counting unigrams
isKeyword(w) == w \notin StopWords /\ Len(w) > 1

\* the filter analyzeNgrams applies before counting bigrams and trigrams
isPhraseWord(w) == Len(w) > 1

\* the local array `words` of analyzeNgrams: the tokens of the lower-cased
\* body text
pageWords(bodyText) == tokenize(toLowerCase(bodyText))

\* as analyzeNgrams, totalWords and uniqueWords taken from the filtered words
analyzeNgramsFilteredTotals(bodyText) ==
    LET ws == pageWords(bodyText)
        filtered == Filter(ws, isKeyword)
        unigrams == buildNgramCounts(filtered, 1, <<>>)
        bigrams == buildNgramCounts(Filter(ws, isPhraseWord), 2, <<StopWords>>)
        trigrams == buildNgramCounts(Filter(ws, isPhraseWord), 3, <<StopWords>>)
    IN  [unigrams |-> getTopN(unigrams, TopUnigrams),
         bigrams |-> getTopN(bigrams, TopPhrases),
         trigrams |-> getTopN(trigrams, TopPhrases),
         totalWords |-> Len(filtered),
         uniqueWords |-> Cardinality({filtered[i] : i \in 1..Len(filtered)})]

\* analyzeNgrams() for a page whose body text (hidden nodes removed) is bodyText
analyzeNgrams(bodyText) ==
    LET ws == pageWords(bodyText)
        filtered == Filter(ws, isKeyword)
        unigrams == buildNgramCounts(filtered, 1, <<>>)
        bigrams == buildNgramCounts(Filter(ws, isPhraseWord), 2, <<StopWords>>)
        trigrams == buildNgramCounts(Filter(ws, isPhraseWord), 3, <<StopWords>>)
    IN  [unigrams |-> getTopN(unigrams, TopUnigrams),
         bigrams |-> getTopN(bigrams, TopPhrases),
         trigrams |-> getTopN(trigrams, TopPhrases),
         totalWords |-> Len(ws),
         uniqueWords |-> Cardinality({ws[i] : i \in 1..Len(ws)})]

----------------------------------------------------------------------------
(* Inputs of countText *)

CountAlphabet == {"a", ".", " ", "\n"}

\* every text over CountAlphabet of at most MaxTextLen characters
ShortTexts == UNION {[1..n -> CountAlphabet] : n \in 0..MaxTextLen}

CountWordChoices == {<<"a">>, <<"H", "i", ".">>}
CountSeparators == {<<" ">>, <<"\n", " ", "\n">>}

\* k copies of the word w, separated by sep
Repeated(w, sep, k) ==
    FlatMapIdx(LAMBDA i : IF i = 1 THEN w ELSE sep \o w, 1, k)

LongTexts ==
    {Repeated(w, sep, k) : w \in CountWordChoices, sep \in CountSeparators,
                           k \in (MaxCountWords - CountWordsSpan)..MaxCountWords}

----------------------------------------------------------------------------
(* Inputs of analyzeNgrams and getTopN *)

WThe == <<"T", "h", "e">>
WOn == <<"o", "n">>
WCat == <<"c", "a", "t">>
WSat == <<"s", "a", "t">>
WMatDot == <<"m", "a", "t", ".">>
WX == <<"x">>
W10 == <<"1", "0">>
W2024 == <<"2", "0", "2", "4">>
W7 == <<"7">>
WConstructor == <<"c","o","n","s","t","r","u","c","t","o","r">>

\* the chunks the enumerated page texts are made of: two stop words, a
\* keyword, a one-character word and two numbers
NgramVocabulary == {WThe, WOn, WCat, WX, W10, W2024}

\* "The cat sat on The mat. The cat sat on The mat."
ExampleText ==
    JoinSpace(<<WThe, WCat, WSat, WOn, WThe, WMatDot, WThe, WCat, WSat, WOn, WThe, WMatDot>>)

SampleTexts ==
    {ExampleText,
     JoinSpace(<<WX, WThe, WCat, WX, WThe, WCat>>),
     JoinSpace(<<WConstructor, WCat, WConstructor, WCat, WConstructor>>)}

NgramTexts ==
    {JoinSpace(c) : c \in UNION {[1..n -> NgramVocabulary] : n \in 0..MaxNgramChunks}}
        \cup SampleTexts

\* the tokenizer's character classes: a letter, a capital, a digit, the two
\* joiners and a separator
TokenAlphabet == {"a", "B", "7", "-", "'", " "}

\* every text over TokenAlphabet of at most MaxTokenLen characters
TokenTexts == UNION {[1..n -> TokenAlphabet] : n \in 0..MaxTokenLen}

\* countSyllables: a vowel, the letter e, a capital e, a consonant and a
\* character that is no letter
SyllableAlphabet == {"a", "e", "E", "t", "-"}

WA == <<"a">>
WBeautiful == <<"b", "e", "a", "u", "t", "i", "f", "u", "l">>

\* every word over SyllableAlphabet of at most MaxWordLen characters, and
\* the words "cat", "a" and "beautiful"
SyllableWords ==
    UNION {[1..n -> SyllableAlphabet] : n \in 0..MaxWordLen} \cup {WCat, WA, WBeautiful}

\* what separates the two words of a block, what separates two blocks, and
\* what stands before the first and after the last block
WordSeparators == {<<" ">>, <<" ", " ">>, <<"\n">>}
BlockSeparators == {<<"\n", "\n">>, <<"\n", " ", "\n">>, <<"\n", "\n", "\n">>,
                    <<" ", "\n", "\t", "\n", " ">>}
Paddings == {<<>>, <<" ", "\n">>}

\* k blocks of the two words "a." and "a"
BlockText(k, wsep, bsep, pad) ==
    pad \o FlatMapIdx(LAMBDA i : (IF i = 1 THEN <<>> ELSE bsep) \o <<"a", ".">> \o wsep \o <<"a">>,
                      1, k) \o pad

BlockTexts ==
    {BlockText(k, wsep, bsep, pad) :
        k \in 0..MaxBlocks, wsep \in WordSeparators, bsep \in BlockSeparators, pad \in Paddings}

\* the texts countText is called on again and again
RepeatTexts ==
    {<<>>,
     <<"a", " ", "-", " ", "a", ".">>,
     <<"a", "\n", "\n", "a">>,
     ExampleText}

\* the text of the page and of the selection when a message arrives
ContentTexts ==
    UNION {[1..n -> CountAlphabet] : n \in 0..MaxSelectionLen} \cup {ExampleText}

\* the tokens the arrays given to buildNgramCounts are made of
TopNTokens == {WCat, W10, W7, WConstructor}

TokenArrays == UNION {[1..n -> TopNTokens] : n \in 0..MaxTopNWords}

\* the popup is not open
PopupClosed ==
    /\ dataCollection = <<>>
    /\ sessionId = <<>>
    /\ toggleChecked = TRUE
    /\ toggleReady = FALSE
    /\ pendingWrites = <<>>
    /\ display = {"loading"}
    /\ sendPc = "idle"
    /\ sendResult = "none"
    /\ posts = 0
    /\ warnings = {}
    /\ tab = <<>>
    /\ startPc = "query"
    /\ executeResult = "none"
    /\ messageCalls = 0
    /\ rendered = FALSE
    /\ sendCalls = 0

\* no message has reached the page
NoMessage ==
    /\ request = "none"
    /\ handlerPc = "idle"
    /\ responses = <<>>
    /\ timerPending = FALSE
    /\ vitalsResolved = FALSE
    /\ resolveCalls = 0
    /\ observersOk = FALSE
    /\ observed = 0

\* the content script is not in the page
NotInjected ==
    /\ loaded = FALSE
    /\ listeners = 0
    /\ injections = 0
    /\ hasBody = TRUE
    /\ NoMessage

\* nothing was done to the document
ExtraIdle ==
    /\ headings = <<>>
    /\ headingReport = <<>>
    /\ sessionCalls = <<>>
    /\ notes = <<>>

NoResults ==
    /\ stats = <<>>
    /\ readability = <<>>
    /\ ngrams = <<>>
    /\ counts = <<>>
    /\ topN = <<>>
    /\ tokens = <<>>
    /\ divisors = <<>>
    /\ syllables = <<>>

InitCount ==
    /\ text \in ShortTexts \cup LongTexts
    /\ words = <<>>
    /\ limit = 0
    /\ NoResults
    /\ history = <<>>
    /\ PopupClosed
    /\ NotInjected
    /\ ExtraIdle

\* the content script answers a "countSelection" request, or analyzeContent
\* counts the body text
CountText ==
    /\ stats = <<>>
    /\ stats' = <<countText(text)>>
    /\ UNCHANGED <<text, readability, ngrams, words, limit, counts, topN, localVars,
                 history, popupVars, pageVars, extraVars>>

NextCount == CountText

SpecCount == InitCount /\ [][NextCount]_vars

InitReadability ==
    /\ text \in PageTexts
    /\ words = <<>>
    /\ limit = 0
    /\ NoResults
    /\ history = <<>>
    /\ PopupClosed
    /\ NotInjected
    /\ ExtraIdle

\* analyzePage calls analyzeReadability() on the page
AnalyzeReadability ==
    /\ readability = <<>>
    /\ \E r \in analyzeReadability(text) : readability' = <<r>>
    /\ divisors' = <<readabilityDivisors(text)>>
    /\ UNCHANGED <<text, stats, ngrams, words, limit, counts, topN, tokens, syllables,
                 history, popupVars, pageVars, extraVars>>

NextReadability == AnalyzeReadability

SpecReadability == InitReadability /\ [][NextReadability]_vars

InitNgrams ==
    /\ text \in NgramTexts
    /\ words = <<>>
    /\ limit = 0
    /\ NoResults
    /\ history = <<>>
    /\ PopupClosed
    /\ NotInjected
    /\ ExtraIdle

\* analyzePage calls analyzeNgrams() on the page
AnalyzeNgrams ==
    /\ ngrams = <<>>
    /\ ngrams' = <<analyzeNgrams(text)>>
    /\ tokens' = <<pageWords(text)>>
    /\ UNCHANGED <<text, stats, readability, words, limit, counts, topN, divisors, syllables,
                 history, popupVars, pageVars, extraVars>>

NextNgrams == AnalyzeNgrams

SpecNgrams == InitNgrams /\ [][NextNgrams]_vars

InitTokenize ==
    /\ text \in TokenTexts
    /\ words = <<>>
    /\ limit = 0
    /\ NoResults
    /\ history = <<>>
    /\ PopupClosed
    /\ NotInjected
    /\ ExtraIdle

NextTokenize == AnalyzeNgrams

SpecTokenize == InitTokenize /\ [][NextTokenize]_vars

InitSyllables ==
    /\ text \in SyllableWords
    /\ words = <<>>
    /\ limit = 0
    /\ NoResults
    /\ history = <<>>
    /\ PopupClosed
    /\ NotInjected
    /\ ExtraIdle

\* countSyllables(word), as analyzeReadability calls it for each word
CountSyllables ==
    /\ syllables = <<>>
    /\ syllables' = <<countSyllables(text)>>
    /\ UNCHANGED <<text, stats, readability, ngrams, words, limit, counts, topN, tokens, divisors,
                 history, popupVars, pageVars, extraVars>>

NextSyllables == CountSyllables

SpecSyllables == InitSyllables /\ [][NextSyllables]_vars

InitAnalyze ==
    /\ text \in ShortTexts
    /\ words = <<>>
    /\ limit = 0
    /\ NoResults
    /\ history = <<>>
    /\ PopupClosed
    /\ NotInjected
    /\ ExtraIdle

\* analyzePage runs the analyzers on the page
NextAnalyze == CountText \/ AnalyzeReadability \/ AnalyzeNgrams

SpecAnalyze == InitAnalyze /\ [][NextAnalyze]_vars

InitTopN ==
    /\ text = <<>>
    /\ words \in TokenArrays
    /\ limit \in 0..MaxLimit
    /\ NoResults
    /\ history = <<>>
    /\ PopupClosed
    /\ NotInjected
    /\ ExtraIdle

\* buildNgramCounts(words, 1)
BuildCounts ==
    /\ counts = <<>>
    /\ counts' = <<buildNgramCounts(words, 1, <<>>)>>
    /\ UNCHANGED <<text, stats, readability, ngrams, words, limit, topN, localVars,
                 history, popupVars, pageVars, extraVars>>

\* getTopN(counts, limit)
GetTopN ==
    /\ counts # <<>>
    /\ topN = <<>>
    /\ topN' = <<getTopN(counts[1], limit)>>
    /\ UNCHANGED <<text, stats, readability, ngrams, words, limit, counts, localVars,
                 history, popupVars, pageVars, extraVars>>

NextTopN == BuildCounts \/ GetTopN

SpecTopN == InitTopN /\ [][NextTopN]_vars

----------------------------------------------------------------------------
(* analyzeHeadings *)

\* the level of the heading before the i-th one: lastLevel when the loop
\* reaches it
lastLevelAt(levels, i) == IF i = 1 THEN 0 ELSE levels[i - 1]

\* the indices at which the loop finds h.level > lastLevel + 1
skipsOf(levels) == {i \in 1..Len(levels) : levels[i] > lastLevelAt(levels, i) + 1}

\* as skipIssuesOf, the flag skipIssue never set: one issue for each skip
skipIssuesOfEach(levels) ==
    LET skips == skipsOf(levels)
        nth(k) == CHOOSE i \in skips : Cardinality({j \in skips : j <= i}) = k
    IN  [k \in 1..Cardinality(skips) |->
            [type |-> "warn",
             message |-> <<"Heading level skipped", lastLevelAt(levels, nth(k)),
                           levels[nth(k)]>>]]

\* the issues pushed by the heading-order loop: one, for the first skip
skipIssuesOf(levels) ==
    LET skips == skipsOf(levels)
    IN  IF skips = {} THEN <<>>
        ELSE LET i == CHOOSE j \in skips : \A m \in skips : j <= m
             IN  <<[type |-> "warn",
                    message |-> <<"Heading level skipped", lastLevelAt(levels, i), levels[i]>>]>>

\* analyzeHeadings() for a document whose headings have these levels
analyzeHeadings(levels) ==
    LET count(l) == Cardinality({i \in 1..Len(levels) : levels[i] = l})
        h1 == count(1)
        total == Len(levels)
        h1Issues == IF h1 = 0 THEN <<[type |-> "fail", message |-> <<"No H1 tag found">>]>>
                    ELSE IF h1 > 1
                         THEN <<[type |-> "warn", message |-> <<"Multiple H1 tags", h1>>]>>
                         ELSE <<>>
        skipIssues == skipIssuesOf(levels)
        skipIssue == skipIssues # <<>>
        afterH1 == IF h1 = 0 THEN 100 - 40 ELSE IF h1 > 1 THEN 100 - 20 ELSE 100
        afterSkip == IF skipIssue THEN afterH1 - 20 ELSE afterH1
        score == IF total = 0 THEN 0 ELSE afterSkip
    IN  [score |-> Max(0, score),
         items |-> levels,
         issues |-> h1Issues \o skipIssues,
         stats |-> [h1 |-> h1, h2 |-> count(2), h3 |-> count(3), h4 |-> count(4),
                    h5 |-> count(5), h6 |-> count(6), total |-> total]]

\* every sequence of at most MaxHeadings headings
HeadingLists == UNION {[1..n -> 1..6] : n \in 0..MaxHeadings}

InitHeadings ==
    /\ text = <<>>
    /\ words = <<>>
    /\ limit = 0
    /\ NoResults
    /\ history = <<>>
    /\ PopupClosed
    /\ NotInjected
    /\ headings \in HeadingLists
    /\ headingReport = <<>>
    /\ sessionCalls = <<>>
    /\ notes = <<>>

\* analyzePage calls analyzeHeadings() on the page
AnalyzeHeadings ==
    /\ headingReport = <<>>
    /\ headingReport' = <<analyzeHeadings(headings)>>
    /\ UNCHANGED <<text, stats, readability, ngrams, words, limit, counts, topN, localVars,
                   history, popupVars, pageVars, headings, sessionCalls, notes>>

NextHeadings == AnalyzeHeadings

SpecHeadings == InitHeadings /\ [][NextHeadings]_vars

----------------------------------------------------------------------------
(* countText called again and again *)

InitRepeat ==
    /\ text \in RepeatTexts
    /\ words = <<>>
    /\ limit = 0
    /\ NoResults
    /\ history = <<>>
    /\ PopupClosed
    /\ NotInjected
    /\ ExtraIdle

\* one more call of countText, on any text
CountAgain ==
    /\ Len(history) < MaxCalls
    /\ \E t \in RepeatTexts :
         /\ text' = t
         /\ stats' = <<countText(t)>>
         /\ history' = Append(history, [text |-> t, result |-> countText(t)])
    /\ UNCHANGED <<readability, ngrams, words, limit, counts, topN, localVars,
                   popupVars, pageVars, extraVars>>

NextRepeat == CountAgain \/ AnalyzeReadability \/ AnalyzeNgrams

SpecRepeat == InitRepeat /\ [][NextRepeat]_vars

----------------------------------------------------------------------------
(* countText on two texts made of blocks *)

InitBlocks ==
    /\ text \in BlockTexts
    /\ words = <<>>
    /\ limit = 0
    /\ NoResults
    /\ history = <<>>
    /\ PopupClosed
    /\ NotInjected
    /\ ExtraIdle

\* countText on the text, then on another text
CountBlocks ==
    /\ Len(history) < 2
    /\ \E t \in BlockTexts :
         /\ Len(history) = 0 => t = text
         /\ text' = t
         /\ stats' = <<countText(t)>>
         /\ history' = Append(history, [text |-> t, result |-> countText(t)])
    /\ UNCHANGED <<readability, ngrams, words, limit, counts, topN, localVars,
                   popupVars, pageVars, extraVars>>

NextBlocks == CountBlocks

SpecBlocks == InitBlocks /\ [][NextBlocks]_vars

----------------------------------------------------------------------------
(* The content script: injection and the message listener *)

InitContent ==
    /\ text \in ContentTexts
    /\ words = <<>>
    /\ limit = 0
    /\ NoResults
    /\ history = <<>>
    /\ PopupClosed
    /\ loaded = FALSE
    /\ listeners = 0
    /\ injections = 0
    /\ hasBody \in BOOLEAN
    /\ NoMessage
    /\ ExtraIdle

\* as Inject, without the guard against duplicate injection
InjectUnguarded ==
    /\ injections < MaxInjections
    /\ injections' = injections + 1
    /\ loaded' = TRUE
    /\ listeners' = listeners + 1
    /\ UNCHANGED <<text, stats, readability, ngrams, words, limit, counts, topN, localVars,
                   history, popupVars, hasBody, request, handlerPc, responses, vitalsVars, extraVars>>

\* the popup or the context menu injects analyzer.js: the listener is added
\* unless the page has the script already
Inject ==
    /\ injections < MaxInjections
    /\ injections' = injections + 1
    /\ IF loaded THEN UNCHANGED <<loaded, listeners>>
       ELSE /\ loaded' = TRUE
            /\ listeners' = listeners + 1
    /\ UNCHANGED <<text, stats, readability, ngrams, words, limit, counts, topN, localVars,
                   history, popupVars, hasBody, request, handlerPc, responses, vitalsVars, extraVars>>

\* what analyzePage() resolves to once the web vitals are there
reportOf(content, read, grams) ==
    [content |-> content, readability |-> read, ngrams |-> grams]

\* an "analyze" message arrives: analyzePage() calls analyzeWebVitals(), which
\* registers the observers, or fails to, and starts the timer; then it runs
\* the analyzers, which throw on a document without body
DeliverAnalyze ==
    /\ listeners > 0
    /\ handlerPc \in {"idle", "done", "failed"}
    /\ ~timerPending
    /\ request' = "analyze"
    /\ responses' = <<>>
    /\ timerPending' = TRUE
    /\ vitalsResolved' = FALSE
    /\ resolveCalls' = 0
    /\ observersOk' \in BOOLEAN
    /\ observed' = 0
    /\ IF hasBody
       THEN /\ stats' = <<countText(text)>>
            /\ \E r \in analyzeReadability(text) : readability' = <<r>>
            /\ ngrams' = <<analyzeNgrams(text)>>
            /\ handlerPc' = "vitals"
       ELSE /\ UNCHANGED <<stats, readability, ngrams>>
            /\ handlerPc' = "failed"
    /\ UNCHANGED <<text, words, limit, counts, topN, localVars, history, popupVars,
                   loaded, listeners, injections, hasBody, extraVars>>

\* finish(): the first call resolves the web vitals promise, and
\* analyzePage(), if it waits for it, resolves too: each listener's
\* then-callback gives the report to sendResponse
finish ==
    IF vitalsResolved
    THEN UNCHANGED <<vitalsResolved, resolveCalls, handlerPc, responses>>
    ELSE /\ vitalsResolved' = TRUE
         /\ resolveCalls' = resolveCalls + 1
         /\ IF handlerPc = "vitals"
            THEN /\ responses' = [i \in 1..listeners |->
                                     reportOf(stats[1], readability[1], ngrams[1])]
                 /\ handlerPc' = "done"
            ELSE UNCHANGED <<handlerPc, responses>>

\* the web vitals timer fires, two seconds after analyzeWebVitals()
VitalsTimeout ==
    /\ timerPending
    /\ timerPending' = FALSE
    /\ finish
    /\ UNCHANGED <<text, stats, readability, ngrams, words, limit, counts, topN, localVars,
                   history, popupVars, loaded, listeners, injections, hasBody, request,
                   observersOk, observed, extraVars>>

\* as ObserverCallback, the entry also ending the collection
ObserverCallbackFinishes ==
    /\ request = "analyze"
    /\ observersOk
    /\ observed < MaxEntries
    /\ observed' = observed + 1
    /\ finish
    /\ UNCHANGED <<text, stats, readability, ngrams, words, limit, counts, topN, localVars,
                   history, popupVars, loaded, listeners, injections, hasBody, request,
                   timerPending, observersOk, extraVars>>

\* a performance observer delivers entries, before or after the timer: the
\* callback updates lcp, cls or inp and nothing else
ObserverCallback ==
    /\ request = "analyze"
    /\ observersOk
    /\ observed < MaxEntries
    /\ observed' = observed + 1
    /\ UNCHANGED <<text, stats, readability, ngrams, words, limit, counts, topN, localVars,
                   history, popupVars, loaded, listeners, injections, hasBody, request,
                   handlerPc, responses, timerPending, vitalsResolved, resolveCalls,
                   observersOk, extraVars>>

\* a "countSelection" message arrives: each listener gives countText of the
\* selection to sendResponse
DeliverCountSelection ==
    /\ listeners > 0
    /\ handlerPc \in {"idle", "done", "failed"}
    /\ ~timerPending
    /\ request' = "countSelection"
    /\ responses' = [i \in 1..listeners |-> countText(text)]
    /\ handlerPc' = "done"
    /\ UNCHANGED <<text, stats, readability, ngrams, words, limit, counts, topN, localVars,
                   history, popupVars, loaded, listeners, injections, hasBody, vitalsVars, extraVars>>

NextContent ==
    \/ Inject
    \/ DeliverAnalyze
    \/ VitalsTimeout
    \/ ObserverCallback
    \/ DeliverCountSelection

SpecContent == InitContent /\ [][NextContent]_vars

\* the timer of setTimeout fires
SpecContentTimed == SpecContent /\ WF_vars(VitalsTimeout)

----------------------------------------------------------------------------
(* The popup: the data-collection toggle and sendAnalysis *)

\* what the popup leaves alone
analysisVars ==
    <<text, stats, readability, ngrams, words, limit, counts, topN, localVars, history>>

\* the values crypto.randomUUID() can return
Uuids == 1..MaxCallers

\* what chrome.storage.local can hold under the key sessionId
StoredIds == {<<>>} \cup {<<uuid>> : uuid \in Uuids}

\* isDataCollectionEnabled() for the stored value: result.dataCollection !== false
isDataCollectionEnabled(stored) == stored # <<FALSE>>

\* s.startsWith(prefix)
startsWith(s, prefix) ==
    /\ Len(s) >= Len(prefix)
    /\ SubSeq(s, 1, Len(prefix)) = prefix

\* as restricted, edge:// forgotten
restrictedNoEdge(url) ==
    \/ startsWith(url, <<"c", "h", "r", "o", "m", "e", ":", "/", "/">>)
    \/ startsWith(url, <<"c", "h", "r", "o", "m", "e", "-", "e", "x", "t", "e", "n", "s",
                         "i", "o", "n", ":", "/", "/">>)
    \/ startsWith(url, <<"a", "b", "o", "u", "t", ":">>)

\* the URLs startAnalysis refuses to analyze
restricted(url) ==
    \/ startsWith(url, <<"c", "h", "r", "o", "m", "e", ":", "/", "/">>)
    \/ startsWith(url, <<"c", "h", "r", "o", "m", "e", "-", "e", "x", "t", "e", "n", "s",
                         "i", "o", "n", ":", "/", "/">>)
    \/ startsWith(url, <<"a", "b", "o", "u", "t", ":">>)
    \/ startsWith(url, <<"e", "d", "g", "e", ":", "/", "/">>)

\* !tab || !tab.url: no active tab, or a tab whose URL is missing or empty
noTab(t) == t = <<>> \/ t[1].url = <<>> \/ t[1].url[1] = <<>>

\* the URLs of the active tab: browser pages, bare prefixes, web pages, a web
\* page with a prefix further in, and the empty URL
Urls ==
    {<<"c", "h", "r", "o", "m", "e", ":", "/", "/", "x">>,
     <<"c", "h", "r", "o", "m", "e", ":", "/", "/">>,
     <<"c", "h", "r", "o", "m", "e", "-", "e", "x", "t", "e", "n", "s", "i", "o", "n",
       ":", "/", "/", "x">>,
     <<"a", "b", "o", "u", "t", ":", "x">>,
     <<"e", "d", "g", "e", ":", "/", "/", "x">>,
     <<"e", "d", "g", "e", ":", "/", "/">>,
     <<"h", "t", "t", "p", ":", "/", "/", "x">>,
     <<"f", "i", "l", "e", ":", "/", "/", "x">>,
     <<"x", ":", "a", "b", "o", "u", "t", ":">>,
     <<"c", "h", "r", "o", "m", "e", ":", "x">>,
     <<>>}

\* what chrome.tabs.query can answer
Tabs == {<<>>, <<[url |-> <<>>]>>} \cup {<<[url |-> <<u>>]>> : u \in Urls}

\* showError(): the loading indicator is hidden and the error panel shown
showError == display' = (display \ {"loading"}) \cup {"error"}

InitPopup ==
    /\ text = <<>>
    /\ words = <<>>
    /\ limit = 0
    /\ NoResults
    /\ history = <<>>
    /\ NotInjected
    /\ ExtraIdle
    /\ dataCollection \in {<<>>, <<TRUE>>, <<FALSE>>}
    /\ sessionId \in StoredIds
    /\ toggleChecked \in BOOLEAN
    /\ toggleReady = FALSE
    /\ pendingWrites = <<>>
    /\ display = {"loading"}
    /\ sendPc = "idle"
    /\ sendResult = "none"
    /\ posts = 0
    /\ warnings = {}
    /\ tab \in Tabs
    /\ startPc = "query"
    /\ executeResult = "none"
    /\ messageCalls = 0
    /\ rendered = FALSE
    /\ sendCalls = 0

\* initDataToggle(): the stored preference is read, shown by the toggle, and
\* the change listener is added
InitDataToggle ==
    /\ ~toggleReady
    /\ toggleChecked' = isDataCollectionEnabled(dataCollection)
    /\ toggleReady' = TRUE
    /\ UNCHANGED <<dataCollection, sessionId, pendingWrites, display, sendPc, sendResult,
                   posts, warnings, startVars, analysisVars, pageVars, extraVars>>

\* the user switches the toggle; the change listener, once added, asks the
\* storage to store the new value
SwitchToggle ==
    /\ Len(pendingWrites) < MaxPendingWrites
    /\ toggleChecked' = ~toggleChecked
    /\ pendingWrites' = IF toggleReady THEN Append(pendingWrites, ~toggleChecked)
                        ELSE pendingWrites
    /\ UNCHANGED <<dataCollection, sessionId, toggleReady, display, sendPc, sendResult,
                   posts, warnings, startVars, analysisVars, pageVars, extraVars>>

\* the storage stores the oldest value it was asked to store
StoreWrite ==
    /\ pendingWrites # <<>>
    /\ dataCollection' = <<Head(pendingWrites)>>
    /\ pendingWrites' = Tail(pendingWrites)
    /\ UNCHANGED <<sessionId, toggleChecked, toggleReady, display, sendPc, sendResult,
                   posts, warnings, startVars, analysisVars, pageVars, extraVars>>

\* chrome.tabs.query answers: a missing tab, a tab without URL or a browser
\* page makes startAnalysis throw, and its catch block calls showError();
\* otherwise it calls executeScript
QueryTab ==
    /\ startPc = "query"
    /\ IF noTab(tab) \/ restricted(tab[1].url[1])
       THEN /\ showError
            /\ startPc' = "end"
            /\ UNCHANGED executeResult
       ELSE /\ executeResult' = "pending"
            /\ startPc' = "inject"
            /\ UNCHANGED display
    /\ UNCHANGED <<dataCollection, sessionId, toggleChecked, toggleReady, pendingWrites,
                   sendPc, sendResult, posts, warnings, tab, messageCalls, rendered,
                   sendCalls, analysisVars, pageVars, extraVars>>

\* executeScript resolves or rejects; either way startAnalysis goes on and
\* sends the analyze message
InjectSettles ==
    /\ startPc = "inject"
    /\ executeResult' \in {"ok", "failed"}
    /\ messageCalls' = messageCalls + 1
    /\ startPc' = "message"
    /\ UNCHANGED <<dataCollection, sessionId, toggleChecked, toggleReady, pendingWrites,
                   display, sendPc, sendResult, posts, warnings, tab, rendered, sendCalls,
                   analysisVars, pageVars, extraVars>>

\* startAnalysis() got the report: displayResults() shows the results panel,
\* renders every section and calls sendAnalysis(), which asks the storage
\* for the preference
DisplayResults ==
    /\ startPc = "message"
    /\ display' = (display \ {"loading"}) \cup {"results"}
    /\ rendered' = TRUE
    /\ sendCalls' = sendCalls + 1
    /\ sendPc' = "enabled"
    /\ sendResult' = "pending"
    /\ startPc' = "end"
    /\ UNCHANGED <<dataCollection, sessionId, toggleChecked, toggleReady, pendingWrites,
                   posts, warnings, tab, executeResult, messageCalls, analysisVars,
                   pageVars, extraVars>>

\* as RenderFails, sendAnalysis() called before the sections are rendered
RenderFailsAfterSend ==
    /\ startPc = "message"
    /\ display' = ((display \ {"loading"}) \cup {"results"}) \cup {"error"}
    /\ sendCalls' = sendCalls + 1
    /\ sendPc' = "enabled"
    /\ sendResult' = "pending"
    /\ startPc' = "end"
    /\ UNCHANGED <<dataCollection, sessionId, toggleChecked, toggleReady, pendingWrites,
                   posts, warnings, tab, executeResult, messageCalls, rendered,
                   analysisVars, pageVars, extraVars>>

\* startAnalysis() got a report, and displayResults() throws while it renders:
\* the results panel is shown already, and the catch block calls showError()
RenderFails ==
    /\ startPc = "message"
    /\ display' = ((display \ {"loading"}) \cup {"results"}) \cup {"error"}
    /\ startPc' = "end"
    /\ UNCHANGED <<dataCollection, sessionId, toggleChecked, toggleReady, pendingWrites,
                   sendPc, sendResult, posts, warnings, tab, executeResult, messageCalls,
                   rendered, sendCalls, analysisVars, pageVars, extraVars>>

\* sendMessage rejects, or resolves with no report: the catch block of
\* startAnalysis calls showError()
ShowError ==
    /\ startPc = "message"
    /\ showError
    /\ startPc' = "end"
    /\ UNCHANGED <<dataCollection, sessionId, toggleChecked, toggleReady, pendingWrites,
                   sendPc, sendResult, posts, warnings, tab, executeResult, messageCalls,
                   rendered, sendCalls, analysisVars, pageVars, extraVars>>

\* as Swallow, without the try/catch: the promise of sendAnalysis rejects
Unhandled ==
    /\ sendPc' = "done"
    /\ sendResult' = "rejected"
    /\ warnings' = warnings

\* the catch block of sendAnalysis: the failure is logged and the function
\* returns
Swallow ==
    /\ sendPc' = "done"
    /\ sendResult' = "resolved"
    /\ warnings' = warnings \cup {"Could not reach API"}

\* sendAnalysis once it has the session id: the manifest lookup throws, or
\* fetch() issues the POST
Post ==
    \/ /\ Swallow
       /\ posts' = posts
    \/ /\ posts' = posts + 1
       /\ sendPc' = "fetch"
       /\ UNCHANGED <<sendResult, warnings>>

\* await isDataCollectionEnabled(): the read fails, or the preference read
\* is false and sendAnalysis returns, or it goes on to getSessionId()
ReadPreference ==
    /\ sendPc = "enabled"
    /\ \/ Swallow
       \/ /\ ~isDataCollectionEnabled(dataCollection)
          /\ sendPc' = "done"
          /\ sendResult' = "resolved"
          /\ UNCHANGED warnings
       \/ /\ isDataCollectionEnabled(dataCollection)
          /\ sendPc' = "session"
          /\ UNCHANGED <<sendResult, warnings>>
    /\ UNCHANGED <<dataCollection, sessionId, toggleChecked, toggleReady, pendingWrites,
                   display, posts, startVars, analysisVars, pageVars, extraVars>>

\* getSessionId(): the read fails, or the stored id is returned, or a new id
\* is made and given to the storage
ReadSession ==
    /\ sendPc = "session"
    /\ \/ /\ Swallow
          /\ posts' = posts
       \/ /\ sessionId # <<>>
          /\ Post
       \/ /\ sessionId = <<>>
          /\ sendPc' = "saveSession"
          /\ UNCHANGED <<sendResult, warnings, posts>>
    /\ UNCHANGED <<dataCollection, sessionId, toggleChecked, toggleReady, pendingWrites,
                   display, startVars, analysisVars, pageVars, extraVars>>

\* getSessionId(): await chrome.storage.local.set({ sessionId })
SaveSession ==
    /\ sendPc = "saveSession"
    /\ \/ /\ Swallow
          /\ posts' = posts
          /\ UNCHANGED sessionId
       \/ /\ \E uuid \in Uuids : sessionId' = <<uuid>>
          /\ Post
    /\ UNCHANGED <<dataCollection, toggleChecked, toggleReady, pendingWrites,
                   display, startVars, analysisVars, pageVars, extraVars>>

\* await fetch(): it rejects, or the answer is not OK and is logged, or it is OK
FetchSettles ==
    /\ sendPc = "fetch"
    /\ \/ Swallow
       \/ /\ sendPc' = "done"
          /\ sendResult' = "resolved"
          /\ warnings' = warnings \cup {"Failed to save analysis"}
       \/ /\ sendPc' = "done"
          /\ sendResult' = "resolved"
          /\ UNCHANGED warnings
    /\ UNCHANGED <<dataCollection, sessionId, toggleChecked, toggleReady, pendingWrites,
                   display, posts, startVars, analysisVars, pageVars, extraVars>>

NextPopup ==
    \/ InitDataToggle
    \/ SwitchToggle
    \/ StoreWrite
    \/ QueryTab
    \/ InjectSettles
    \/ DisplayResults
    \/ RenderFails
    \/ ShowError
    \/ ReadPreference
    \/ ReadSession
    \/ SaveSession
    \/ FetchSettles

SpecPopup == InitPopup /\ [][NextPopup]_vars

----------------------------------------------------------------------------
(* getSessionId called from several popups *)

InitSession ==
    /\ text = <<>>
    /\ words = <<>>
    /\ limit = 0
    /\ NoResults
    /\ history = <<>>
    /\ PopupClosed
    /\ NotInjected
    /\ headings = <<>>
    /\ headingReport = <<>>
    /\ sessionCalls = <<>>
    /\ notes = <<>>

\* what a call of getSessionId leaves alone
sessionRest ==
    <<dataCollection, toggleChecked, toggleReady, pendingWrites, display, sendPc,
      sendResult, posts, warnings, startVars, analysisVars, pageVars, headings,
      headingReport, notes>>

\* getSessionId() is called: it asks the storage for the key sessionId
CallGetSessionId ==
    /\ Len(sessionCalls) < MaxCallers
    /\ sessionCalls' = Append(sessionCalls, [pc |-> "get", id |-> <<>>])
    /\ UNCHANGED <<sessionId, sessionRest>>

\* the storage answers the get of call c: a stored id is returned; without
\* one the call makes an id and asks the storage to store it
SessionRead(c) ==
    /\ sessionCalls[c].pc = "get"
    /\ \/ /\ sessionId # <<>>
          /\ sessionCalls' = [sessionCalls EXCEPT ![c] = [pc |-> "returned", id |-> sessionId]]
       \/ /\ sessionId = <<>>
          /\ \E uuid \in Uuids :
                sessionCalls' = [sessionCalls EXCEPT ![c] = [pc |-> "set", id |-> <<uuid>>]]
    /\ UNCHANGED <<sessionId, sessionRest>>

\* the storage stores the id of call c, and the call returns it
SessionWrite(c) ==
    /\ sessionCalls[c].pc = "set"
    /\ sessionId' = sessionCalls[c].id
    /\ sessionCalls' = [sessionCalls EXCEPT ![c].pc = "returned"]
    /\ UNCHANGED sessionRest

NextSession ==
    \/ CallGetSessionId
    \/ \E c \in 1..Len(sessionCalls) : SessionRead(c)
    \/ \E c \in 1..Len(sessionCalls) : SessionWrite(c)

SpecSession == InitSession /\ [][NextSession]_vars

----------------------------------------------------------------------------
(* The count notification of the context menu *)

InitNotify ==
    /\ text = <<>>
    /\ words = <<>>
    /\ limit = 0
    /\ NoResults
    /\ history = <<>>
    /\ PopupClosed
    /\ loaded = FALSE
    /\ listeners = 0
    /\ injections = 0
    /\ hasBody \in BOOLEAN
    /\ NoMessage
    /\ ExtraIdle

\* what showCountNotification and its timers leave alone
notifyRest ==
    <<popupVars, analysisVars, pageVars, headings, headingReport, sessionCalls>>

\* document.getElementById('seo-analyzer-count'): 0, or the first div in the
\* document
existingNote(ns) ==
    IF \E i \in 1..Len(ns) : ns[i].attached
    THEN CHOOSE i \in 1..Len(ns) : ns[i].attached /\ \A j \in 1..(i - 1) : ~ns[j].attached
    ELSE 0

\* existing.remove(), when there is one
removeExisting(ns) ==
    [i \in 1..Len(ns) |-> IF i = existingNote(ns) THEN [ns[i] EXCEPT !.attached = FALSE]
                          ELSE ns[i]]

\* showCountNotification(stats), run in the page for a count-selection click:
\* the notification in the document is removed, a new div is made and
\* appended to the body, and its dismissal timer is set; without a body
\* appendChild throws, and the div is not shown and has no timer
ShowCountNotification ==
    /\ Len(notes) < MaxNotifications
    /\ notes' = Append(removeExisting(notes),
                       IF hasBody THEN [attached |-> TRUE, timer |-> "dismiss"]
                       ELSE [attached |-> FALSE, timer |-> "none"])
    /\ UNCHANGED notifyRest

\* the timer of 4000 ms of notification i fires: the div fades, and the timer
\* of 300 ms is set
DismissTimer(i) ==
    /\ i \in 1..Len(notes)
    /\ notes[i].timer = "dismiss"
    /\ notes' = [notes EXCEPT ![i].timer = "remove"]
    /\ UNCHANGED notifyRest

\* as RemoveTimer, the div looked up by its id when the timer fires
RemoveTimerById(i) ==
    /\ i \in 1..Len(notes)
    /\ notes[i].timer = "remove"
    /\ notes' = [removeExisting(notes) EXCEPT ![i].timer = "none"]
    /\ UNCHANGED notifyRest

\* the timer of 300 ms of notification i fires: div.remove()
RemoveTimer(i) ==
    /\ i \in 1..Len(notes)
    /\ notes[i].timer = "remove"
    /\ notes' = [notes EXCEPT ![i] = [attached |-> FALSE, timer |-> "none"]]
    /\ UNCHANGED notifyRest

NextNotify ==
    \/ ShowCountNotification
    \/ \E i \in 1..MaxNotifications : DismissTimer(i)
    \/ \E i \in 1..MaxNotifications : RemoveTimer(i)

SpecNotify == InitNotify /\ [][NextNotify]_vars

\* every timer set fires
SpecNotifyTimed ==
    /\ SpecNotify
    /\ \A i \in 1..MaxNotifications : WF_vars(DismissTimer(i)) /\ WF_vars(RemoveTimer(i))

----------------------------------------------------------------------------
(* Properties *)

\* the number of whitespace-separated chunks of t: its maximal runs of
\* characters that are not whitespace
ChunkCount(t) ==
    Cardinality({i \in 1..Len(t) : ~IsWS(t[i]) /\ (i = 1 \/ IsWS(t[i - 1]))})

\* the number of word tokens of t
TokenCount(t) == Len(tokenize(toLowerCase(t)))

\* C1, as stated: for a page text of fewer than 30 words the readability
\* report has a message, score 0, and null in every numeric field
\* (fleschEase, fleschKincaid, avgSentenceLen, avgWordLen, syllablesPerWord).
C1_AllNumericFieldsNull ==
    \A k \in 1..Len(readability) :
        ChunkCount(text) < 30 =>
            /\ readability[k].message # Null
            /\ readability[k].score = 0
            /\ readability[k].fleschEase = Null
            /\ readability[k].fleschKincaid = Null
            /\ readability[k].avgSentenceLen = Null
            /\ readability[k].avgWordLen = Null
            /\ readability[k].syllablesPerWord = Null

\* C1, amended: for a page text of fewer than 30 whitespace-separated words
\* the readability report has a message, score 0, null fleschEase and
\* fleschKincaid, and 0 as avgSentenceLen, avgWordLen and syllablesPerWord.
C1_NotEnoughTextReport ==
    \A k \in 1..Len(readability) :
        ChunkCount(text) < 30 =>
            /\ readability[k].message # Null
            /\ readability[k].score = 0
            /\ readability[k].fleschEase = Null
            /\ readability[k].fleschKincaid = Null
            /\ readability[k].avgSentenceLen = Some(0)
            /\ readability[k].avgWordLen = Some(0)
            /\ readability[k].syllablesPerWord = Some(0)

C1_Witness ==
    /\ readability # <<>>
    /\ readability[1].message # Null
    /\ ChunkCount(text) = 29

\* C2: for a text of at least 30 words, fleschEase is a number in [0, 100]
\* (0..1000 tenths).
C2_EaseInRange ==
    \A k \in 1..Len(readability) :
        ChunkCount(text) >= 30 =>
            /\ readability[k].fleschEase # Null
            /\ readability[k].fleschEase[1] >= 0
            /\ readability[k].fleschEase[1] <= 1000

\* thirty one-word sentences: the formula gives 121.2, the report 100
C2_Witness ==
    /\ readability # <<>>
    /\ ChunkCount(text) >= 30
    /\ readability[1].avgSentenceLen = Some(10)
    /\ readability[1].syllablesPerWord = Some(100)
    /\ readability[1].fleschEase = Some(1000)

\* C3: for a text of at least 30 words, fleschKincaid is a number >= 0.
C3_GradeNonNegative ==
    \A k \in 1..Len(readability) :
        ChunkCount(text) >= 30 =>
            /\ readability[k].fleschKincaid # Null
            /\ readability[k].fleschKincaid[1] >= 0

\* thirty one-word sentences: the formula gives -3.4, the report 0
C3_Witness ==
    /\ readability # <<>>
    /\ ChunkCount(text) >= 30
    /\ readability[1].avgSentenceLen = Some(10)
    /\ readability[1].syllablesPerWord = Some(100)
    /\ readability[1].fleschKincaid = Some(0)

\* C4: in a report with a null message the score is 100 when the reported
\* fleschEase is >= 60, 70 when it is in [40, 60), 40 when it is in [20, 40)
\* and 20 below; 60.0 gives 100 and 59.9 gives 70; the score is one of
\* 0, 20, 40, 70, 100, and 0 only in the not-enough-text report.
C4_ScoreFromEase ==
    \A k \in 1..Len(readability) :
        LET r == readability[k]
        IN  /\ r.score \in {0, 20, 40, 70, 100}
            /\ r.score = 0 => r.message # Null
            /\ r.message = Null =>
                 /\ r.fleschEase # Null
                 /\ r.fleschEase[1] >= 600 => r.score = 100
                 /\ (r.fleschEase[1] >= 400 /\ r.fleschEase[1] < 600) => r.score = 70
                 /\ (r.fleschEase[1] >= 200 /\ r.fleschEase[1] < 400) => r.score = 40
                 /\ r.fleschEase[1] < 200 => r.score = 20
                 /\ r.fleschEase[1] = 600 => r.score = 100
                 /\ r.fleschEase[1] = 599 => r.score = 70

C4_Witness ==
    /\ readability # <<>>
    /\ readability[1].message = Null
    /\ readability[1].fleschEase = Some(600)
    /\ readability[1].score = 100

\* C5, as stated: the not-enough-text report is returned exactly when the
\* text has fewer than 30 word tokens.
C5_TokenThreshold ==
    \A k \in 1..Len(readability) :
        (readability[k].message # Null) <=> (TokenCount(text) < 30)

\* C5, amended: the not-enough-text report is returned exactly when the text
\* has fewer than 30 whitespace-separated chunks, punctuation-only chunks
\* counted.
C5_ChunkThreshold ==
    \A k \in 1..Len(readability) :
        /\ (readability[k].message # Null) <=> (ChunkCount(text) < 30)
        /\ (readability[k] = NotEnoughTextReport) <=> (ChunkCount(text) < 30)

\* 30 chunks or more, fewer than 30 word tokens, and a full report
C5_Witness ==
    /\ readability # <<>>
    /\ readability[1].message = Null
    /\ ChunkCount(text) >= 30
    /\ TokenCount(text) < 30

\* C6: countText returns words >= 0 and readingTimeMin = max(1, ceil(words /
\* 238)): 1 for 0..238 words, 2 at 239 words, and in general the least
\* m >= 1 with 238 * m >= words.
C6_ReadingTime ==
    \A k \in 1..Len(stats) :
        LET w == stats[k].words
            m == stats[k].readingTimeMin
        IN  /\ w = ChunkCount(text)
            /\ w >= 0
            /\ m >= 1
            /\ 238 * m >= w
            /\ m > 1 => 238 * (m - 1) < w
            /\ w \in 1..238 => m = 1
            /\ w = 239 => m = 2

C6_Witness ==
    /\ stats # <<>>
    /\ stats[1].words = 239
    /\ stats[1].readingTimeMin = 2

\* the entries of a frequency table that getTopN may return
Eligible(table) == {i \in 1..Len(table) : IsNum(table[i].val) /\ table[i].val[1] >= 2}

\* C7: getTopN(counts, n) returns no entry with count < 2, at most n
\* entries, by non-increasing count; every phrase of count >= 2 left out has
\* a count no greater than any count returned.  Each entry returned is a
\* phrase of the table with its count, and no phrase is returned twice.
C7_TopN ==
    \A k \in 1..Len(topN) :
        LET out == topN[k]
            table == counts[1]
        IN  /\ \A i \in 1..Len(out) : out[i].count >= 2
            /\ Len(out) <= limit
            /\ \A i \in 1..(Len(out) - 1) : out[i].count >= out[i + 1].count
            /\ \A i \in 1..Len(out) :
                 \E j \in Eligible(table) :
                     table[j].key = out[i].phrase /\ table[j].val[1] = out[i].count
            /\ \A i, j \in 1..Len(out) : out[i].phrase = out[j].phrase => i = j
            /\ \A j \in Eligible(table) :
                 (\A i \in 1..Len(out) : out[i].phrase # table[j].key) =>
                     /\ Len(out) = limit
                     /\ \A i \in 1..Len(out) : table[j].val[1] <= out[i].count

\* a full list, with an eligible phrase and a single occurrence left out
C7_Witness ==
    /\ topN # <<>>
    /\ limit >= 1
    /\ Len(topN[1]) = limit
    /\ Cardinality(Eligible(counts[1])) > limit
    /\ \E i \in 1..Len(counts[1]) : counts[1][i].val = Num(1)

\* the tokens buildNgramCounts is given for n-grams of size n
WindowTokens(t, n) ==
    IF n = 1 THEN Filter(tokenize(toLowerCase(t)), LAMBDA w : w \notin StopWords /\ Len(w) > 1)
    ELSE Filter(tokenize(toLowerCase(t)), LAMBDA w : Len(w) > 1)

\* the start indices at which phrase occurs as n consecutive tokens of ws
Occurrences(ws, n, phrase) ==
    {i \in 1..(Len(ws) - n + 1) : JoinSpace(SubSeq(ws, i, i + n - 1)) = phrase}

FirstSeen(ws, n, phrase) ==
    CHOOSE i \in Occurrences(ws, n, phrase) : \A j \in Occurrences(ws, n, phrase) : i <= j

ReportList(r, n) == IF n = 1 THEN r.unigrams ELSE IF n = 2 THEN r.bigrams ELSE r.trigrams

\* C8: in every n-gram list of the report, two phrases with the same count
\* appear in the order in which they were first encountered in the token
\* sequence, for every kind of token, tokens made of digits included.
C8_TiesInFirstSeenOrder ==
    \A k \in 1..Len(ngrams) : \A n \in 1..3 :
        LET list == ReportList(ngrams[k], n)
            ws == WindowTokens(text, n)
        IN  \A i, j \in 1..Len(list) :
                (i < j /\ list[i].count = list[j].count) =>
                    /\ Occurrences(ws, n, list[i].phrase) # {}
                    /\ Occurrences(ws, n, list[j].phrase) # {}
                    /\ FirstSeen(ws, n, list[i].phrase) < FirstSeen(ws, n, list[j].phrase)

\* every word of the phrase is a stop word
AllStop(phrase) ==
    LET parts == SplitSpace(phrase) IN \A i \in 1..Len(parts) : parts[i] \in StopWords

SomeStop(phrase) ==
    LET parts == SplitSpace(phrase) IN \E i \in 1..Len(parts) : parts[i] \in StopWords

Listed(list, phrase) == \E i \in 1..Len(list) : list[i].phrase = phrase

\* C9: the windows of size 2 and 3 run over all tokens longer than one
\* character, stop words included, and a candidate is discarded if and only
\* if all its words are stop words: a phrase that occurs at least twice in
\* those windows is reported (the list not being full) exactly when not all
\* its words are stop words, and no reported phrase is made of stop words
\* only.  For "The cat sat on The mat. The cat sat on The mat." the bigrams
\* hold "cat sat" and "the cat" with count >= 2, and not "on the".
C9_PhraseStopWordRule ==
    \A k \in 1..Len(ngrams) :
        /\ \A n \in 2..3 :
             LET list == ReportList(ngrams[k], n)
                 ws == WindowTokens(text, n)
             IN  /\ \A i \in 1..Len(list) : ~AllStop(list[i].phrase)
                 /\ \A i \in 1..(Len(ws) - n + 1) :
                      LET phrase == JoinSpace(SubSeq(ws, i, i + n - 1))
                      IN  (Cardinality(Occurrences(ws, n, phrase)) >= 2 /\ Len(list) < TopPhrases) =>
                              (Listed(list, phrase) <=> ~AllStop(phrase))
        /\ text = ExampleText =>
             LET list == ngrams[k].bigrams
             IN  /\ \E i \in 1..Len(list) :
                      list[i].phrase = JoinSpace(<<WCat, WSat>>) /\ list[i].count >= 2
                 /\ \E i \in 1..Len(list) :
                      list[i].phrase = JoinSpace(<<toLowerCase(WThe), WCat>>) /\ list[i].count >= 2
                 /\ ~Listed(list, JoinSpace(<<WOn, toLowerCase(WThe)>>))

C9_Witness ==
    /\ text = ExampleText
    /\ ngrams # <<>>
    /\ Listed(ngrams[1].bigrams, JoinSpace(<<toLowerCase(WThe), WCat>>))
    /\ Cardinality(Occurrences(WindowTokens(text, 2), 2, JoinSpace(<<WOn, toLowerCase(WThe)>>))) = 2

\* C10: no entry of the unigram list is a stop word or a one-character
\* token.  (A stop word can be part of a reported bigram or trigram: the
\* witness is such a report.)
C10_UnigramsAreKeywords ==
    \A k \in 1..Len(ngrams) :
        \A i \in 1..Len(ngrams[k].unigrams) :
            /\ ngrams[k].unigrams[i].phrase \notin StopWords
            /\ Len(ngrams[k].unigrams[i].phrase) > 1

\* the one-character word occurs twice, the unigrams are not empty, and a
\* reported bigram holds a stop word
C10_Witness ==
    /\ ngrams # <<>>
    /\ ngrams[1].unigrams # <<>>
    /\ \E i \in 1..Len(ngrams[1].bigrams) : SomeStop(ngrams[1].bigrams[i].phrase)
    /\ Cardinality(Occurrences(tokenize(toLowerCase(text)), 1, WX)) >= 2

\* C11: for every n in 1..3 and every phrase of the n-gram list, the count
\* reported is the number of start indices at which the phrase occurs as n
\* consecutive tokens of the token sequence given to buildNgramCounts; and
\* every phrase that occurs at two or more start indices (and, for n >= 2,
\* is not made of stop words only) is in the list, the list not being full,
\* whatever word it is.
C11_CountsAreOccurrences ==
    \A k \in 1..Len(ngrams) : \A n \in 1..3 :
        LET list == ReportList(ngrams[k], n)
            ws == WindowTokens(text, n)
            full == Len(list) = (IF n = 1 THEN TopUnigrams ELSE TopPhrases)
        IN  /\ \A i \in 1..Len(list) :
                 list[i].count = Cardinality(Occurrences(ws, n, list[i].phrase))
            /\ \A i \in 1..(Len(ws) - n + 1) :
                 LET phrase == JoinSpace(SubSeq(ws, i, i + n - 1))
                 IN  (/\ Cardinality(Occurrences(ws, n, phrase)) >= 2
                      /\ (n >= 2 => ~AllStop(phrase))
                      /\ ~full) => Listed(list, phrase)

\* the number of word tokens of t, counted by their last characters: the
\* alphanumerics of the lower-cased text after which the run of word
\* characters holds no alphanumeric
TokenEnds(t) ==
    LET s == toLowerCase(t)
    IN  {i \in 1..Len(s) :
            /\ s[i] \in AlphaNum
            /\ \A j \in (i + 1)..Len(s) :
                 (\A m \in (i + 1)..j : s[m] \in WordChars) => s[j] \notin AlphaNum}

\* C12: totalWords is the number of all word tokens of the text, stop words
\* and one-character tokens included, and uniqueWords the number of distinct
\* tokens among them; 0 <= uniqueWords <= totalWords, and uniqueWords = 0
\* exactly when totalWords = 0.
C12_TotalAndUniqueWords ==
    \A k \in 1..Len(ngrams) :
        LET r == ngrams[k]
            ws == tokens[k]
        IN  /\ r.totalWords = Cardinality(TokenEnds(text))
            /\ r.totalWords = Len(ws)
            /\ r.uniqueWords = Cardinality({ws[i] : i \in 1..Len(ws)})
            /\ 0 <= r.uniqueWords
            /\ r.uniqueWords <= r.totalWords
            /\ (r.uniqueWords = 0) <=> (r.totalWords = 0)

\* a repeated stop word and a one-character token are counted
C12_Witness ==
    /\ ngrams # <<>>
    /\ ngrams[1].totalWords = 5
    /\ ngrams[1].uniqueWords = 3
    /\ Cardinality(Occurrences(tokens[1], 1, toLowerCase(WThe))) = 2
    /\ Cardinality(Occurrences(tokens[1], 1, WX)) = 2
    /\ ngrams[1].unigrams = <<>>

\* the first characters of the word tokens of t: the alphanumerics of the
\* lower-cased text before which the run of word characters holds no
\* alphanumeric
TokenStarts(t) ==
    LET s == toLowerCase(t)
    IN  {i \in 1..Len(s) :
            /\ s[i] \in AlphaNum
            /\ \A j \in 1..(i - 1) :
                 (\A m \in j..(i - 1) : s[m] \in WordChars) => s[j] \notin AlphaNum}

\* the k-th smallest member of the set S of numbers
Kth(S, k) == CHOOSE x \in S : Cardinality({y \in S : y <= x}) = k

\* no token begins or ends with an apostrophe or a hyphen
NoJoinerAtTokenEdge ==
    \A k \in 1..Len(tokens) : \A i \in 1..Len(tokens[k]) :
        LET w == tokens[k][i]
        IN  w # <<>> /\ w[1] \in AlphaNum /\ w[Len(w)] \in AlphaNum

\* C13 as stated: the tokens are the maximal runs matching
\* [a-z0-9](['-]?[a-z0-9])* of the lower-cased text, so that two or more
\* consecutive apostrophes or hyphens separate tokens, and no token begins or
\* ends with an apostrophe or a hyphen.
C13_SingleJoinerTokens ==
    /\ \A k \in 1..Len(tokens) : tokens[k] = tokenizeSingleJoin(toLowerCase(text))
    /\ NoJoinerAtTokenEdge

\* C13 amended: the tokens are the maximal runs matching
\* [a-z0-9]([a-z0-9'-]*[a-z0-9])? of the lower-cased text: each run of
\* alphanumerics, apostrophes and hyphens that holds an alphanumeric gives
\* one token, from its first to its last alphanumeric, however many
\* apostrophes or hyphens stand between two alphanumerics; no token begins or
\* ends with an apostrophe or a hyphen.
C13_WordRunTokens ==
    /\ \A k \in 1..Len(tokens) :
         LET s == toLowerCase(text)
             starts == TokenStarts(text)
             ends == TokenEnds(text)
         IN  /\ Len(tokens[k]) = Cardinality(starts)
             /\ Len(tokens[k]) = Cardinality(ends)
             /\ \A i \in 1..Len(tokens[k]) :
                  tokens[k][i] = SubSeq(s, Kth(starts, i), Kth(ends, i))
    /\ NoJoinerAtTokenEdge

\* "a--B" is one token, "a--b"
C13_Witness ==
    /\ tokens # <<>>
    /\ text = <<"a", "-", "-", "B">>
    /\ tokens[1] = << <<"a", "-", "-", "b">> >>

\* the number of maximal runs of vowels of w, counted by their last vowels
VowelRunEnds(w) ==
    {i \in 1..Len(w) : w[i] \in Vowels /\ (i = Len(w) \/ w[i + 1] \notin Vowels)}

\* C14: countSyllables returns an integer >= 1: with the word lower-cased and
\* its non-letters stripped, 1 if at most 2 letters remain, otherwise, one
\* trailing "e" stripped, max(1, number of maximal runs of the vowels
\* a,e,i,o,u,y); "cat" gives 1, "a" gives 1, "beautiful" gives at least 3.
C14_SyllableCount ==
    \A k \in 1..Len(syllables) :
        LET n == syllables[k]
            letters == SelectSeq(toLowerCase(text), LAMBDA c : c \in Letters)
            last == Len(letters)
            stem == IF letters[last] = "e" THEN SubSeq(letters, 1, last - 1) ELSE letters
        IN  /\ n \in Nat
            /\ n >= 1
            /\ last <= 2 => n = 1
            /\ last > 2 => n = Max(1, Cardinality(VowelRunEnds(stem)))
            /\ text = WCat => n = 1
            /\ text = WA => n = 1
            /\ text = WBeautiful => n >= 3

\* "tatE" has one syllable: its final e is not counted
C14_Witness ==
    /\ text = <<"t", "a", "t", "E">>
    /\ syllables = <<1>>

\* t is empty or holds whitespace only
Blank(t) == \A i \in 1..Len(t) : IsWS(t[i])

\* C19: on empty and whitespace-only input countText returns characters,
\* charactersNoSpaces, words, sentences and paragraphs all 0, the n-gram
\* analysis returns three empty lists with totalWords = 0 and
\* uniqueWords = 0, and the readability analysis returns the
\* not-enough-text report.
C19_TotalOnBlankInput ==
    Blank(text) =>
        /\ \A k \in 1..Len(stats) :
             /\ stats[k].characters = 0
             /\ stats[k].charactersNoSpaces = 0
             /\ stats[k].words = 0
             /\ stats[k].sentences = 0
             /\ stats[k].paragraphs = 0
        /\ \A k \in 1..Len(ngrams) :
             /\ ngrams[k].unigrams = <<>>
             /\ ngrams[k].bigrams = <<>>
             /\ ngrams[k].trigrams = <<>>
             /\ ngrams[k].totalWords = 0
             /\ ngrams[k].uniqueWords = 0
        /\ \A k \in 1..Len(readability) :
             /\ readability[k].message # Null
             /\ readability[k].score = 0
             /\ readability[k].fleschEase = Null
             /\ readability[k].fleschKincaid = Null

\* the three analyzers have answered for a text of blanks and newlines
C19_Witness ==
    /\ text = <<" ", "\n", " ">>
    /\ stats # <<>>
    /\ stats[1].words = 0
    /\ ngrams # <<>>
    /\ ngrams[1].totalWords = 0
    /\ readability # <<>>

\* the sentence terminators found in the cleaned text of t: the characters
\* . ! ? followed by whitespace or by the end of the text
TerminatorsFound(t) ==
    LET c == trim(ReplaceWsRuns(t))
    IN  {i \in 1..Len(c) : c[i] \in Terminators /\ (i = Len(c) \/ IsWS(c[i + 1]))}

\* C20: no division of the readability computation has a zero divisor: when
\* the formulas are evaluated, wordCount >= 30 and sentenceCount =
\* max(1, number of sentence terminators found) >= 1, also for a text
\* without any terminator.
C20_NoZeroDivisor ==
    \A k \in 1..Len(divisors) :
        /\ (divisors[k] # {}) <=> (readability[k].message = Null)
        /\ \A d \in divisors[k] :
             /\ d.value # 0
             /\ d.name = "wordCount" => d.value >= MinWords
             /\ d.name = "sentenceCount" =>
                  /\ d.value >= 1
                  /\ d.value = Max(1, Cardinality(TerminatorsFound(text)))

\* the formulas are evaluated for a text of 30 words without any terminator
C20_Witness ==
    /\ divisors # <<>>
    /\ [name |-> "wordCount", value |-> MinWords] \in divisors[1]
    /\ [name |-> "sentenceCount", value |-> 1] \in divisors[1]
    /\ TerminatorsFound(text) = {}
    /\ readability[1].message = Null

\* C15: no POST to the analysis endpoint is issued while the stored
\* dataCollection preference is false, however the user's switching of the
\* toggle and the storage write interleave with a sendAnalysis call.
C15_NoPostAfterOptOut ==
    [][posts' > posts => dataCollection # <<FALSE>>]_vars

\* C16: sendAnalysis never surfaces a failure: whether the storage read, the
\* manifest lookup or fetch fails or the answer is not OK, its promise
\* resolves and never rejects, at most one POST is issued, and the popup
\* keeps showing the results.
C16_FailureSwallowed ==
    /\ sendResult # "rejected"
    /\ sendPc = "done" => sendResult = "resolved"
    /\ warnings # {} => sendPc = "done"
    /\ posts <= 1
    /\ sendPc # "idle" => display = {"results"}

\* fetch was issued and rejected: logged, the promise resolved
C16_Witness ==
    /\ sendPc = "done"
    /\ sendResult = "resolved"
    /\ posts = 1
    /\ warnings = {"Could not reach API"}
    /\ display = {"results"}

\* C17: every "analyze" request delivered to the content script gets exactly
\* one response, the full report, and every "countSelection" request exactly
\* one response, the statistics of the selected text: once nothing of the
\* handling of a request remains to be done, one response has been given,
\* and never more than one.
C17_OneResponsePerRequest ==
    /\ Len(responses) <= 1
    /\ handlerPc \in {"done", "failed"} =>
         /\ Len(responses) = 1
         /\ request = "countSelection" => responses[1] = countText(text)
         /\ request = "analyze" =>
              /\ responses[1].content = countText(text)
              /\ responses[1].readability \in analyzeReadability(text)
              /\ responses[1].ngrams = analyzeNgrams(text)

ChunkStarts(t) == {i \in 1..Len(t) : ~IsWS(t[i]) /\ (i = 1 \/ IsWS(t[i - 1]))}
ChunkEnds(t) == {i \in 1..Len(t) : ~IsWS(t[i]) /\ (i = Len(t) \/ IsWS(t[i + 1]))}

\* t and u differ only in the whitespace between their chunks
SameChunks(t, u) ==
    /\ Cardinality(ChunkStarts(t)) = Cardinality(ChunkStarts(u))
    /\ \A k \in 1..Cardinality(ChunkStarts(t)) :
         SubSeq(t, Kth(ChunkStarts(t), k), Kth(ChunkEnds(t), k))
             = SubSeq(u, Kth(ChunkStarts(u), k), Kth(ChunkEnds(u), k))

\* the number of blocks of t: a block begins at the first chunk, and at each
\* chunk that at least two newlines, a blank line, separate from the chunk
\* before it
BlockCount(t) ==
    Cardinality({i \in ChunkStarts(t) :
        \A j \in ChunkEnds(t) :
            (j < i /\ \A m \in (j + 1)..(i - 1) : IsWS(t[m]))
                => Cardinality({m \in (j + 1)..(i - 1) : t[m] = "\n"}) >= 2})

\* C21: paragraphs is counted in the original text, as the number of
\* non-empty blocks separated by a blank line, and characters, words and
\* sentences in the collapsed, trimmed text: two texts that differ only in
\* the whitespace of their separators have equal characters, words and
\* sentences, and a text of k blocks has paragraphs = k.
C21_ParagraphsOverRawText ==
    /\ \A i \in 1..Len(history) :
         history[i].result.paragraphs = BlockCount(history[i].text)
    /\ \A i, j \in 1..Len(history) :
         SameChunks(history[i].text, history[j].text) =>
             /\ history[i].result.characters = history[j].result.characters
             /\ history[i].result.words = history[j].result.words
             /\ history[i].result.sentences = history[j].result.sentences

\* two texts with the same six words in three blocks, their whitespace different
C21_Witness ==
    /\ Len(history) = 2
    /\ history[1].text # history[2].text
    /\ SameChunks(history[1].text, history[2].text)
    /\ history[1].result.paragraphs = 3
    /\ history[2].result.paragraphs = 3
    /\ history[1].result.words = 6
    /\ history[1].result.characters # Len(history[1].text)

\* C29: the statistics of countText satisfy: if words > 0 then
\* characters = charactersNoSpaces + words - 1, if words = 0 then
\* characters = charactersNoSpaces = 0; sentences <= charactersNoSpaces;
\* and, when words > 0, 1 <= paragraphs <= words.
C29_StatsRelations ==
    \A k \in 1..Len(stats) :
        LET r == stats[k]
        IN  /\ r.words > 0 => r.characters = r.charactersNoSpaces + r.words - 1
            /\ r.words = 0 => r.characters = 0 /\ r.charactersNoSpaces = 0
            /\ r.sentences <= r.charactersNoSpaces
            /\ r.words > 0 => 1 <= r.paragraphs /\ r.paragraphs <= r.words

\* "a.", a blank line, "a": two words, two paragraphs, one sentence
C29_Witness ==
    /\ text = <<"a", ".", "\n", "\n", "a">>
    /\ stats # <<>>
    /\ stats[1].words = 2
    /\ stats[1].paragraphs = 2
    /\ stats[1].sentences = 1
    /\ stats[1].characters = 4
    /\ stats[1].charactersNoSpaces = 3

\* C22: after any number of injections of the content script into a page
\* one message listener is registered, so that a request never starts more
\* than one analysis run (one per listener) nor gets more than one call of
\* sendResponse.
C22_OneListener ==
    /\ listeners = (IF injections > 0 THEN 1 ELSE 0)
    /\ loaded <=> injections > 0
    /\ Len(responses) <= listeners

\* after three injections an analyze request got its one response
C22_Witness ==
    /\ injections = 3
    /\ listeners = 1
    /\ request = "analyze"
    /\ handlerPc = "done"
    /\ Len(responses) = 1

\* what C23 says of every state: the web vitals promise is resolved at most
\* once, and exactly when the timer has fired, whether or not the observers
\* were registered or called; the report is not given before that.
VitalsResolvedByTimer ==
    /\ resolveCalls <= 1
    /\ request = "analyze" => ((resolveCalls = 1) <=> ~timerPending)
    /\ vitalsResolved <=> resolveCalls = 1
    /\ (request = "analyze" /\ responses # <<>>) => resolveCalls = 1

\* C23: every analyzePage call completes: the web vitals promise resolves
\* exactly once, when the 2-second timer fires, even if no observer callback
\* fires or the registration of the observers throws; callbacks arriving
\* later do not resolve it again; the report is not produced before.
C23_VitalsResolveOnce ==
    /\ []VitalsResolvedByTimer
    /\ [](timerPending => <>(~timerPending /\ resolveCalls = 1))
    /\ [](handlerPc = "vitals" => <>(handlerPc = "done"))

\* the report was given after the timer, and an observer callback ran later
\* than one; the observers of another run are not registered
C23_Witness ==
    /\ request = "analyze"
    /\ handlerPc = "done"
    /\ ~timerPending
    /\ resolveCalls = 1
    /\ observed = 2
    /\ Len(responses) = 1

\* the skipped-level issues of a report
SkipIssues(r) ==
    {i \in 1..Len(r.issues) : r.issues[i].message[1] = "Heading level skipped"}

\* C30: the headings score is one of 0, 40, 60, 80, 100; it is 0 exactly
\* when the page has no heading; with headings but no H1 a skipped-level
\* issue is reported and the score is 40; at most one skipped-level issue is
\* reported, for the first skip in document order.
C30_HeadingsScore ==
    \A k \in 1..Len(headingReport) :
        LET r == headingReport[k]
            n == Len(headings)
            noH1 == \A i \in 1..n : headings[i] # 1
            Skip(i) == headings[i] - (IF i = 1 THEN 0 ELSE headings[i - 1]) >= 2
        IN  /\ r.score \in {0, 40, 60, 80, 100}
            /\ (r.score = 0) <=> (n = 0)
            /\ (n > 0 /\ noH1) => (SkipIssues(r) # {} /\ r.score = 40)
            /\ Cardinality(SkipIssues(r)) <= 1
            /\ (SkipIssues(r) # {}) <=> (\E i \in 1..n : Skip(i))
            /\ \A j \in SkipIssues(r) : \E i \in 1..n :
                 /\ Skip(i)
                 /\ \A m \in 1..(i - 1) : ~Skip(m)
                 /\ r.issues[j].message[3] = headings[i]
                 /\ r.issues[j].message[2] = (IF i = 1 THEN 0 ELSE headings[i - 1])

\* h1, h3, h1, h6: two skips, one issue, for h1 to h3; two H1: score 60
C30_Witness ==
    /\ headings = <<1, 3, 1, 6>>
    /\ headingReport # <<>>
    /\ headingReport[1].score = 60
    /\ Len(headingReport[1].issues) = 2
    /\ headingReport[1].issues[2].message = <<"Heading level skipped", 1, 3>>

\* the URL starts with chrome://, chrome-extension://, about: or edge://
BrowserPage(url) ==
    \E prefix \in {<<"c", "h", "r", "o", "m", "e", ":", "/", "/">>,
                   <<"c", "h", "r", "o", "m", "e", "-", "e", "x", "t", "e", "n", "s", "i",
                     "o", "n", ":", "/", "/">>,
                   <<"a", "b", "o", "u", "t", ":">>,
                   <<"e", "d", "g", "e", ":", "/", "/">>} :
        /\ Len(url) >= Len(prefix)
        /\ \A i \in 1..Len(prefix) : url[i] = prefix[i]

\* the active tab is missing, has no URL, or shows a browser page
UnreachableTab ==
    \/ tab = <<>>
    \/ tab[1].url = <<>>
    \/ tab[1].url[1] = <<>>
    \/ BrowserPage(tab[1].url[1])

\* C24: with a missing tab, a tab without URL or a URL starting with
\* chrome://, chrome-extension://, about: or edge://, the popup ends in the
\* error state and neither injects the content script nor sends an analyze
\* message; on any other tab the analyze message is sent once the injection
\* has settled, whether it succeeded or failed.
C24_RestrictedTabNeverAnalyzed ==
    /\ UnreachableTab =>
          /\ executeResult = "none"
          /\ messageCalls = 0
          /\ startPc \in {"query", "end"}
          /\ startPc = "end" => display = {"error"}
    /\ ~UnreachableTab =>
          /\ startPc # "query" => executeResult # "none"
          /\ executeResult \in {"ok", "failed"} => messageCalls = 1

\* the popup opened on edge://x and has ended with the error panel
C24_Witness ==
    /\ tab = <<[url |-> << <<"e", "d", "g", "e", ":", "/", "/", "x">> >>]>>
    /\ startPc = "end"
    /\ display = {"error"}
    /\ messageCalls = 0

\* C25: sendAnalysis is called at most once in a popup session, and only
\* when an analyze response was received and every section rendered; when
\* the popup shows the error panel no report is sent.
C25_SendOnlyAfterRender ==
    /\ sendCalls <= 1
    /\ sendCalls = 1 => (rendered /\ messageCalls = 1 /\ startPc = "end")
    /\ sendPc # "idle" => sendCalls = 1
    /\ "error" \in display => (sendCalls = 0 /\ sendPc = "idle" /\ posts = 0)

\* the report was rendered and posted
C25_Witness ==
    /\ rendered
    /\ sendCalls = 1
    /\ posts = 1

\* C28: the results panel and the error panel are never both visible: the
\* popup shows the loading indicator, or the results, or an error.
C28_OnePanelVisible ==
    display \in {{"loading"}, {"results"}, {"error"}}

\* once the loading indicator is hidden it is not shown again
LoadingNeverShownAgain ==
    [][~("loading" \in display) => ~("loading" \in display')]_vars

\* C26: every call of getSessionId that has returned obtained the id that
\* is stored: all callers hold the same id, under every interleaving of the
\* calls.
C26_OneSessionId ==
    \A c \in 1..Len(sessionCalls) :
        sessionCalls[c].pc = "returned" => sessionCalls[c].id = sessionId

\* once a session id is stored no call of getSessionId overwrites it
SessionIdNeverOverwritten ==
    [][sessionId # <<>> => sessionId' = sessionId]_vars

\* the notifications in the document
Shown == {i \in 1..Len(notes) : notes[i].attached}

\* a notification leaves the document only when its own timer of 300 ms
\* fires or when a new notification is shown
OnlyOwnTimerRemoves ==
    \A i \in Shown :
        ~notes'[i].attached =>
            \/ Len(notes') > Len(notes)
            \/ notes[i].timer = "remove" /\ notes'[i].timer = "none"

\* C27: at most one element with id seo-analyzer-count is in the document;
\* the timers of an earlier notification never remove a later one; and every
\* notification shown is eventually removed.
C27_OneNotification ==
    /\ [](Cardinality(Shown) <= 1)
    /\ [][OnlyOwnTimerRemoves]_vars
    /\ \A i \in 1..MaxNotifications : [](i \in Shown => <>(i \notin Shown))

\* the second notification is shown, the first one is out of the document
\* and its timer of 300 ms is still to fire
C27_Witness ==
    /\ Len(notes) >= 2
    /\ notes[1] = [attached |-> FALSE, timer |-> "remove"]
    /\ notes[2].attached

====
